---- MODULE Spec2Model ----
(***************************************************************************)
(* A model of the 10-K margin calculator (calculate_margins_xbrl.py, with  *)
(* the filing locator it shares with calculate_margins_llm.py).            *)
(*                                                                         *)
(* Python values are tagged records, so that None, a string and a number   *)
(* can be compared the way Python compares them:                           *)
(*   None            [t |-> "NoneType"]                                    *)
(*   a str           [t |-> "str", s |-> <<one-character strings>>]        *)
(*   a JSON integer  [t |-> "int", n |-> n]                                *)
(*   a float         [t |-> "float", num |-> n, den |-> d]  (n/d, reduced) *)
(* A dict is a function whose domain is the set of its keys; an ordered    *)
(* dict (JSON object iterated in order) is a sequence of <<key, value>>.   *)
(***************************************************************************)
EXTENDS Integers, Sequences, FiniteSets, TLC

VARIABLES
    pc,                 \* position of the run (or of the harness call)
    ticker,             \* main: the TICKER argument
    year,               \* main: the YEAR argument, None when not given
    mapping,            \* the ticker -> CIK mapping get_ticker_cik_map built
    cik,                \* main: the CIK of the ticker
    requests,           \* the network requests issued so far, in order
    error,              \* the exception that ended the run, None if none
    recent,             \* the filing history: data["filings"]["recent"]
    meta,               \* the result of get_10k_metadata (or the error raised)
    facts_root,         \* cf["facts"]: {namespace: {concept: {units: ...}}}
    concept_candidates, \* the concept list handed to pick_fact_value
    target_end,         \* the target period end handed to pick_fact_value
    picked,             \* the result of pick_fact_value: <<value, concept>>
    results,            \* main: the extracted financials (fin of compute_margins)
    margins,            \* the result of compute_margins
    report,             \* main: what the report prints for each margin
    exit_code,          \* main: the exit code of the process, None while it runs
    llm_margins,        \* the result of compute_margins of calculate_margins_llm.py
    api_key,            \* DEEPSEEK_API_KEY, None when the environment has none
    resp,               \* the language-model service's answer (status, resp.json())
    fin,                \* what call_deepseek_for_income_statement returns
    util,               \* the download utility that is running
    num_filings,        \* download utility: the number of filings asked for
    form_i,             \* download utility: index i into the filing arrays
    downloaded_files,   \* download utility: the files saved so far
    events              \* download utility: its requests and sleeps, in order

vars == <<pc, ticker, year, mapping, cik, requests, error, recent, meta,
          facts_root, concept_candidates, target_end, picked, results,
          margins, report, exit_code, llm_margins, api_key, resp, fin, util,
          num_filings, form_i, downloaded_files, events>>

\* The state of a call of call_deepseek_for_income_statement.
deepseek_vars == <<api_key, resp, fin>>
\* The state of a call of a download utility.
download_vars == <<util, num_filings, form_i, downloaded_files, events>>

----------------------------------------------------------------------------
(* Bounds of the model.                                                    *)

\* Longest filing history (entries of the parallel arrays).
MaxFilings == 3
\* Most facts of the concept under study in a fact store.
MaxFacts == 2
\* Largest amount of a financial figure handed to compute_margins.
MaxAmount == 2
\* Most rows of the recent filings a download utility reads.
MaxForms == 3

----------------------------------------------------------------------------
(* Python values.                                                          *)

None == [t |-> "NoneType"]
Str(s) == [t |-> "str", s |-> s]
PyInt(n) == [t |-> "int", n |-> n]

\* What a call raised instead of returning.
Raised(e) == [t |-> "raise", exc |-> e]

IsRaised(v) == "exc" \in DOMAIN v
IsNone(v) == "t" \in DOMAIN v /\ v.t = "NoneType"
IsStr(v) == v.t = "str"

\* dict.get(key, default)
Get(d, key, default) == IF key \in DOMAIN d THEN d[key] ELSE default

\* Python truthiness of the values the model holds (`not x` is ~Truthy(x)).
Truthy(v) ==
    CASE v.t = "NoneType" -> FALSE
      [] v.t = "str" -> Len(v.s) > 0
      [] v.t = "int" -> v.n # 0
      [] v.t = "float" -> v.num # 0
      [] OTHER -> TRUE

----------------------------------------------------------------------------
(* Strings: sequences of one-character strings, ordered by code point.     *)

\* The characters the model's strings use, in code point order.
Alphabet ==
    <<"-", "/", "0", "1", "2", "3", "4", "5", "6", "7", "8", "9",
      "A", "D", "F", "K", "Q", "S", "U", "Y", "a", "b", "e", "h", "r", "s">>

Ord(c) == CHOOSE i \in 1..Len(Alphabet) : Alphabet[i] = c

Digits == <<"0", "1", "2", "3", "4", "5", "6", "7", "8", "9">>

IsDigit(c) == \E i \in 1..10 : Digits[i] = c

DigitValue(c) == (CHOOSE i \in 1..10 : Digits[i] = c) - 1

Min2(a, b) == IF a <= b THEN a ELSE b

\* s[:n]
Prefix(s, n) == SubSeq(s, 1, Min2(n, Len(s)))

\* a < b for two str (lexicographic by code point, a proper prefix is less)
StrLess(a, b) ==
    \E i \in 1..(Len(b)) :
        /\ \A j \in 1..(i - 1) : j <= Len(a) /\ a[j] = b[j]
        /\ \/ i = Len(a) + 1
           \/ i <= Len(a) /\ Ord(a[i]) < Ord(b[i])

\* a <= b for the texts of two dates
DateLeq(a, b) == a = b \/ StrLess(a, b)

\* `needle in hay` for two str
Contains(hay, needle) ==
    \E i \in 0..(Len(hay) - Len(needle)) :
        SubSeq(hay, i + 1, i + Len(needle)) = needle

\* Whether int(s) succeeds, for the strings of the model (decimal digits).
IntParses(s) == Len(s) > 0 /\ \A i \in 1..Len(s) : IsDigit(s[i])

RECURSIVE IntOf(_)
\* int(s) for a string of decimal digits
IntOf(s) ==
    IF Len(s) = 0 THEN 0
    ELSE 10 * IntOf(SubSeq(s, 1, Len(s) - 1)) + DigitValue(s[Len(s)])

\* The character of the last decimal digit of n.
DigitChar(n) == Digits[(n % 10) + 1]

\* The text of an ISO date, "YYYY-MM-DD" (how the registry writes dates).
Date(y, m, d) ==
    << DigitChar(y \div 1000), DigitChar(y \div 100), DigitChar(y \div 10),
       DigitChar(y), "-", DigitChar(m \div 10), DigitChar(m), "-",
       DigitChar(d \div 10), DigitChar(d) >>

FORM_10K == <<"1", "0", "-", "K">>
FORM_10KA == <<"1", "0", "-", "K", "/", "A">>
FORM_10Q == <<"1", "0", "-", "Q">>

----------------------------------------------------------------------------
(* Stable descending sort: list.sort(key=..., reverse=True).               *)

\* `pairs` is a sequence of <<key, element>>, key a sequence of characters.
\* x goes after every element whose key is >= its own (equal keys keep
\* their original order, as Python's sort does under reverse=True).
RECURSIVE InsertDesc(_, _)
InsertDesc(sorted, x) ==
    IF Len(sorted) = 0 THEN <<x>>
    ELSE IF StrLess(Head(sorted)[1], x[1]) THEN <<x>> \o sorted
    ELSE <<Head(sorted)>> \o InsertDesc(Tail(sorted), x)

RECURSIVE SortDescFrom(_, _, _)
SortDescFrom(pairs, i, acc) ==
    IF i > Len(pairs) THEN acc
    ELSE SortDescFrom(pairs, i + 1, InsertDesc(acc, pairs[i]))

\* The elements of `pairs` in descending key order.
SortDesc(pairs) ==
    LET sorted == SortDescFrom(pairs, 1, <<>>)
    IN  [i \in 1..Len(sorted) |-> sorted[i][2]]

\* [x for x in seq if Test(x)]
RECURSIVE SelectFrom(_, _, _)
SelectFrom(seq, keep, i) ==
    IF i > Len(seq) THEN <<>>
    ELSE (IF keep[i] THEN <<seq[i]>> ELSE <<>>) \o SelectFrom(seq, keep, i + 1)

----------------------------------------------------------------------------
(* get_10k_metadata: the filing locator.                                   *)

\* zip(forms, accession_numbers, primary_docs, report_dates)
Zip4(a, b, c, d) ==
    LET n == Min2(Min2(Len(a), Len(b)), Min2(Len(c), Len(d)))
    IN  [i \in 1..n |-> <<a[i], b[i], c[i], d[i]>>]

\* A row that skips neither `continue`, with the report-date test left out.
KeepRow_NoDateTest(row) == row[1] = Str(FORM_10K)

\* A row <<form, acc, doc, rdate>> that the loop does not skip:
\* neither `form != "10-K"` nor `not rdate`.
KeepRow(row) == row[1] = Str(FORM_10K) /\ Truthy(row[4])

\* The loop that builds `candidates` from the history.
Candidates(rec) ==
    LET rows == Zip4(rec.form, rec.accessionNumber, rec.primaryDocument,
                     rec.reportDate)
        keep == [i \in 1..Len(rows) |-> KeepRow(rows[i])]
        cand == [i \in 1..Len(rows) |->
                    [accession_number |-> rows[i][2],
                     primary_document |-> rows[i][3],
                     report_date |-> rows[i][4],
                     year |-> IntOf(Prefix(rows[i][4].s, 4))]]
    IN  SelectFrom(cand, keep, 1)

\* cands[0] with the sort left out.
MostRecent_Unsorted(cands) == cands[1]

\* cands.sort(key=lambda x: x["report_date"], reverse=True); cands[0]
MostRecent(cands) ==
    SortDesc([i \in 1..Len(cands) |-> <<cands[i].report_date.s, cands[i]>>])[1]

\* exact with >= for ==.
Exact_AtLeast(cands, y) ==
    SelectFrom(cands, [i \in 1..Len(cands) |-> cands[i].year >= y.n], 1)

\* exact = [c for c in candidates if c["year"] == year]
Exact(cands, y) ==
    SelectFrom(cands, [i \in 1..Len(cands) |-> cands[i].year = y.n], 1)

\* before with the year test left out.
Before_Unfiltered(cands, y) == cands

\* before = [c for c in candidates if c["year"] <= year]
Before(cands, y) ==
    SelectFrom(cands, [i \in 1..Len(cands) |-> cands[i].year <= y.n], 1)

get_10k_metadata(rec, y) ==
    LET candidates == Candidates(rec)
    IN  IF Len(candidates) = 0
        THEN Raised("RuntimeError: No 10-K filings found for this CIK.")
        ELSE IF IsNone(y) THEN MostRecent(candidates)
        ELSE IF Len(Exact(candidates, y)) > 0
             THEN MostRecent(Exact(candidates, y))
        ELSE IF Len(Before(candidates, y)) > 0
             THEN MostRecent(Before(candidates, y))
        ELSE MostRecent(candidates)

----------------------------------------------------------------------------
(* pick_fact_value: the concept resolver.                                  *)

\* A float, as the reduced fraction num/den (den > 0).
RECURSIVE Gcd(_, _)
Gcd(a, b) == IF b = 0 THEN a ELSE Gcd(b, a % b)

Abs(n) == IF n < 0 THEN -n ELSE n

Float(n, d) ==
    LET g == Gcd(Abs(n), Abs(d))
        sgn == IF d < 0 THEN -1 ELSE 1
    IN  [t |-> "float", num |-> (sgn * n) \div g, den |-> (sgn * d) \div g]

\* float(v): of a JSON integer, of a float, of a string of digits; any other
\* value raises.
FloatOf(v) ==
    CASE v.t = "int" -> Float(v.n, 1)
      [] v.t = "float" -> v
      [] v.t = "str" /\ IntParses(v.s) -> Float(IntOf(v.s), 1)
      [] v.t = "str" /\ ~IntParses(v.s) -> Raised("ValueError")
      [] OTHER -> Raised("TypeError")

\* dict(f) with f2["_unit"] = unit
WithUnit(f, unit) ==
    [k \in DOMAIN f \cup {"_unit"} |-> IF k = "_unit" THEN unit ELSE f[k]]

\* _flatten_facts_for_concept: the facts of every unit, in unit order, each
\* copied and annotated with its unit.
Flatten(concept_obj) ==
    LET units == Get(concept_obj, "units", <<>>)
        F[i \in 0..Len(units)] ==
            IF i = 0 THEN <<>>
            ELSE F[i - 1] \o [j \in 1..Len(units[i][2]) |->
                                  WithUnit(units[i][2][j], units[i][1])]
    IN  F[Len(units)]

\* filter_facts(facts, end, require_10k, require_fy)
filter_facts(facts, end, require_10k, require_fy) ==
    SelectFrom(facts,
        [i \in 1..Len(facts) |->
            /\ IsNone(end) \/ Get(facts[i], "end", None) = end
            /\ ~require_10k
                  \/ Contains(Get(facts[i], "form", Str(<<>>)).s, FORM_10K)
            /\ ~require_fy
                  \/ Get(facts[i], "fp", None)
                        \in {Str(<<"F", "Y">>), Str(<<"Y">>), None}],
        1)

\* The last resort with the year test left out: every fact with an end.
SameYear_AnyYear(flat, target) ==
    SelectFrom(flat,
        [i \in 1..Len(flat) |->
            LET end == Get(flat[i], "end", None)
            IN  Truthy(end) /\ Len(end.s) >= 4 /\ IntParses(Prefix(end.s, 4))],
        1)

\* The last resort: the facts whose end has the year of target_end.
SameYear(flat, target) ==
    SelectFrom(flat,
        [i \in 1..Len(flat) |->
            LET end == Get(flat[i], "end", None)
            IN  /\ Truthy(end) /\ Len(end.s) >= 4
                /\ IntParses(Prefix(end.s, 4))
                /\ IntOf(Prefix(end.s, 4)) = IntOf(Prefix(target.s, 4))],
        1)

\* The stages with stage 3 consulted before stage 2.
StageCandidates_RelaxEndFirst(flat, target) ==
    LET c1 == IF ~IsNone(target)
              THEN filter_facts(flat, target, TRUE, TRUE) ELSE <<>>
        c3 == IF Len(c1) = 0
              THEN filter_facts(flat, None, TRUE, TRUE) ELSE c1
        c2 == IF Len(c3) = 0 /\ ~IsNone(target)
              THEN filter_facts(flat, target, TRUE, FALSE) ELSE c3
        c4 == IF Len(c2) = 0
              THEN filter_facts(flat, None, TRUE, FALSE) ELSE c2
    IN  IF Len(c4) = 0 /\ ~IsNone(target) THEN SameYear(flat, target) ELSE c4

\* `candidates` after the five stages.
StageCandidates(flat, target) ==
    LET c1 == IF ~IsNone(target)
              THEN filter_facts(flat, target, TRUE, TRUE) ELSE <<>>
        c2 == IF Len(c1) = 0 /\ ~IsNone(target)
              THEN filter_facts(flat, target, TRUE, FALSE) ELSE c1
        c3 == IF Len(c2) = 0
              THEN filter_facts(flat, None, TRUE, TRUE) ELSE c2
        c4 == IF Len(c3) = 0
              THEN filter_facts(flat, None, TRUE, FALSE) ELSE c3
    IN  IF Len(c4) = 0 /\ ~IsNone(target) THEN SameYear(flat, target) ELSE c4

\* The sort key of a fact: f.get("filed", "0000-00-00")
FiledKey(f) == Get(f, "filed", Str(Date(0, 0, 0))).s

\* The choice with the sort left out.
Chosen_Unsorted(candidates) == candidates[1]

\* candidates.sort(key=filed, reverse=True); chosen = candidates[0]
Chosen(candidates) ==
    SortDesc([i \in 1..Len(candidates) |->
                <<FiledKey(candidates[i]), candidates[i]>>])[1]

\* One turn of the loop with 0.0 returned for a val that does not parse,
\* where the code continues.
TryConcept_ZeroOnBadVal(us_gaap, concept_name, target) ==
    LET concept_obj == Get(us_gaap, concept_name, None)
        flat == Flatten(concept_obj)
        candidates == StageCandidates(flat, target)
        val == Get(Chosen(candidates), "val", None)
    IN  IF IsNone(concept_obj) \/ DOMAIN concept_obj = {} THEN <<None, None>>
        ELSE IF Len(flat) = 0 THEN <<None, None>>
        ELSE IF Len(candidates) = 0 THEN <<None, None>>
        ELSE IF IsNone(val) THEN <<None, None>>
        ELSE IF IsRaised(FloatOf(val)) THEN <<Float(0, 1), Str(concept_name)>>
        ELSE <<FloatOf(val), Str(concept_name)>>

\* One turn of the loop over the concept names: <<None, None>> where the
\* code continues, <<float(val), concept_name>> where it returns.
TryConcept(us_gaap, concept_name, target) ==
    LET concept_obj == Get(us_gaap, concept_name, None)
        flat == Flatten(concept_obj)
        candidates == StageCandidates(flat, target)
        val == Get(Chosen(candidates), "val", None)
    IN  IF IsNone(concept_obj) \/ DOMAIN concept_obj = {} THEN <<None, None>>
        ELSE IF Len(flat) = 0 THEN <<None, None>>
        ELSE IF Len(candidates) = 0 THEN <<None, None>>
        ELSE IF IsNone(val) THEN <<None, None>>
        ELSE IF IsRaised(FloatOf(val)) THEN <<None, None>>
        ELSE <<FloatOf(val), Str(concept_name)>>

\* The loop with `return None, None` where the code continues.
PickFrom_NoFallback(us_gaap, concepts, target, i) ==
    IF i > Len(concepts) THEN <<None, None>>
    ELSE TryConcept(us_gaap, concepts[i], target)

RECURSIVE PickFrom(_, _, _, _)
\* The loop over concept_candidates[i..].
PickFrom(us_gaap, concepts, target, i) ==
    IF i > Len(concepts) THEN <<None, None>>
    ELSE LET r == TryConcept(us_gaap, concepts[i], target)
         IN  IF r # <<None, None>> THEN r
             ELSE PickFrom(us_gaap, concepts, target, i + 1)

NoConcepts == [c \in {} |-> None]

\* The store with the unit written into the stored facts of the listed
\* concepts themselves, not into copies.
StoreAfter_InPlace(root, concepts, target) ==
    IF "us-gaap" \notin DOMAIN root THEN root
    ELSE [root EXCEPT !["us-gaap"] =
            [name \in DOMAIN @ |->
                IF (\E i \in 1..Len(concepts) : concepts[i] = name)
                      /\ "units" \in DOMAIN @[name]
                THEN [@[name] EXCEPT !.units =
                        [u \in 1..Len(@) |->
                            <<@[u][1],
                              [j \in 1..Len(@[u][2]) |->
                                  WithUnit(@[u][2][j], @[u][1])]>>]]
                ELSE @[name]]]

\* The fact store after a call of pick_fact_value: the call writes "_unit"
\* into copies of the facts (f2 = dict(f)) and assigns nothing else, so the
\* store is as it was.
StoreAfter(root, concepts, target) == root

\* pick_fact_value reading facts_root["us-gaap"]: a KeyError (as the first
\* component of the outcome) when the payload has no such namespace.
pick_fact_value_NeedsNamespace(root, concepts, target) ==
    IF "us-gaap" \notin DOMAIN root THEN <<Raised("KeyError"), None>>
    ELSE PickFrom(root["us-gaap"], concepts, target, 1)

pick_fact_value(root, concepts, target) ==
    PickFrom(Get(root, "us-gaap", NoConcepts), concepts, target, 1)

\* The concept lists of the program.
NET_SALES_CONCEPTS ==
    <<"Revenues", "RevenueFromContractWithCustomerExcludingAssessedTax",
      "SalesRevenueNet", "SalesRevenueGoodsNet", "SalesRevenueServicesNet",
      "PremiumsEarnedNet", "TotalRevenuesAndOtherIncome">>

COST_OF_REVENUE_CONCEPTS ==
    <<"CostOfRevenue", "CostOfGoodsAndServicesSold", "CostOfGoodsSold",
      "CostOfGoodsSoldExcludingDepreciationDepletionAndAmortization",
      "CostOfServices">>

GROSS_PROFIT_CONCEPTS ==
    <<"GrossProfit", "GrossProfitExcludingDepreciationDepletionAndAmortization">>

OPERATING_INCOME_CONCEPTS ==
    <<"OperatingIncomeLoss",
      "IncomeLossFromContinuingOperationsBeforeIncomeTaxesExtraordinaryItemsNoncontrollingInterest",
      "IncomeLossFromContinuingOperationsBeforeIncomeTaxesMinorityInterestAndIncomeLossFromEquityMethodInvestments">>

NET_INCOME_CONCEPTS ==
    <<"NetIncomeLoss", "ProfitLoss",
      "NetIncomeLossAvailableToCommonStockholdersBasic",
      "NetIncomeLossAvailableToCommonStockholdersDiluted">>

DEPR_AMORT_CONCEPTS ==
    <<"DepreciationAndAmortization", "DepreciationDepletionAndAmortization",
      "Depreciation", "AmortizationOfIntangibleAssets">>

EBITDA_CONCEPTS ==
    <<"EarningsBeforeInterestTaxesDepreciationAndAmortization",
      "EarningsBeforeInterestTaxesDepreciationAndAmortizationEBITDA">>

----------------------------------------------------------------------------
(* compute_margins: the margin calculator.                                 *)

\* v == 0 as Python decides it for the values of the model.
EqualsZero(v) ==
    \/ v.t = "int" /\ v.n = 0
    \/ v.t = "float" /\ v.num = 0

\* safe_div without the test of the denominator and without the handler:
\* the division raises on a zero denominator.
safe_div_Unguarded(num, den) ==
    IF IsNone(num) \/ IsNone(den) THEN None
    ELSE IF IsRaised(FloatOf(num)) THEN FloatOf(num)
    ELSE IF IsRaised(FloatOf(den)) THEN FloatOf(den)
    ELSE IF FloatOf(den).num = 0 THEN Raised("ZeroDivisionError")
    ELSE Float(FloatOf(num).num * FloatOf(den).den,
               FloatOf(num).den * FloatOf(den).num)

\* safe_div(num, den): None for a None numerator, for a denominator in
\* (None, 0), and for whatever float(num) / float(den) raises.
safe_div(num, den) ==
    IF IsNone(num) \/ IsNone(den) \/ EqualsZero(den) THEN None
    ELSE IF IsRaised(FloatOf(num)) \/ IsRaised(FloatOf(den)) THEN None
    ELSE IF FloatOf(den).num = 0 THEN None
    ELSE Float(FloatOf(num).num * FloatOf(den).den,
               FloatOf(num).den * FloatOf(den).num)

\* compute_margins with gross_margin taken from the wrong figure.
compute_margins_WrongNumerator(figures) ==
    LET net_sales == Get(figures, "net_sales", None)
        operating_income == Get(figures, "operating_income", None)
        net_income == Get(figures, "net_income", None)
        ebitda == Get(figures, "ebitda", None)
    IN  [net_sales_margin |-> safe_div(net_income, net_sales),
         gross_margin |-> safe_div(operating_income, net_sales),
         operating_margin |-> safe_div(operating_income, net_sales),
         ebitda_margin |-> safe_div(ebitda, net_sales)]

compute_margins(figures) ==
    LET net_sales == Get(figures, "net_sales", None)
        gross_profit == Get(figures, "gross_profit", None)
        operating_income == Get(figures, "operating_income", None)
        net_income == Get(figures, "net_income", None)
        ebitda == Get(figures, "ebitda", None)
    IN  [net_sales_margin |-> safe_div(net_income, net_sales),
         gross_margin |-> safe_div(gross_profit, net_sales),
         operating_margin |-> safe_div(operating_income, net_sales),
         ebitda_margin |-> safe_div(ebitda, net_sales)]

\* safe_div of calculate_margins_llm.py.
llm_safe_div(num, den) ==
    IF IsNone(num) \/ IsNone(den) \/ EqualsZero(den) THEN None
    ELSE IF IsRaised(FloatOf(num)) \/ IsRaised(FloatOf(den)) THEN None
    ELSE IF FloatOf(den).num = 0 THEN None
    ELSE Float(FloatOf(num).num * FloatOf(den).den,
               FloatOf(num).den * FloatOf(den).num)

\* compute_margins of calculate_margins_llm.py.
llm_compute_margins(figures) ==
    LET net_sales == Get(figures, "net_sales", None)
        gross_profit == Get(figures, "gross_profit", None)
        operating_income == Get(figures, "operating_income", None)
        net_income == Get(figures, "net_income", None)
        ebitda == Get(figures, "ebitda", None)
    IN  [net_sales_margin |-> llm_safe_div(net_income, net_sales),
         gross_margin |-> llm_safe_div(gross_profit, net_sales),
         operating_margin |-> llm_safe_div(operating_income, net_sales),
         ebitda_margin |-> llm_safe_div(ebitda, net_sales)]

----------------------------------------------------------------------------
(* call_deepseek_for_income_statement: the parsed financials recovered    *)
(* from the language model's answer (calculate_margins_llm.py).           *)

\* A Python dict parsed from JSON text: items maps each key (a tuple of
\* characters) to its value.
JsonObject(items) == [t |-> "dict", items |-> items]
PyBool(b) == [t |-> "bool", b |-> b]

QUOTE == "\""
Whitespace == {" ", "\n", "\t", "\r"}

\* The first position from i on that holds no whitespace (Len(s) + 1 if none).
RECURSIVE SkipWs(_, _)
SkipWs(s, i) ==
    IF i <= Len(s) /\ s[i] \in Whitespace THEN SkipWs(s, i + 1) ELSE i

\* The end of the run of digits that starts at i (i - 1 if s[i] is no digit).
RECURSIVE DigitsEnd(_, _)
DigitsEnd(s, i) ==
    IF i <= Len(s) /\ IsDigit(s[i]) THEN DigitsEnd(s, i + 1) ELSE i - 1

\* s holds the characters of word from position i on.
StartsWith(s, i, word) ==
    /\ i + Len(word) - 1 <= Len(s)
    /\ SubSeq(s, i, i + Len(word) - 1) = word

\* The outcome of scanning one JSON value: where it ends, or that there is none.
Scanned(val, next) == [ok |-> TRUE, val |-> val, next |-> next]
NoScan == [ok |-> FALSE]

\* A JSON string at i: the characters up to the next quote (the texts of the
\* model hold no backslash and no control character).
ScanString(s, i) ==
    LET closes == {j \in (i + 1)..Len(s) : s[j] = QUOTE}
    IN  IF closes = {} THEN NoScan
        ELSE LET j == CHOOSE x \in closes : \A y \in closes : x <= y
             IN  Scanned(Str(SubSeq(s, i + 1, j - 1)), j + 1)

\* A JSON number at i: 0, or a run of digits that starts with 1..9 (the texts
\* of the model hold no sign, fraction or exponent).
ScanNumber(s, i) ==
    IF s[i] = "0" THEN Scanned(PyInt(0), i + 1)
    ELSE Scanned(PyInt(IntOf(SubSeq(s, i, DigitsEnd(s, i)))),
                 DigitsEnd(s, i) + 1)

\* json's scanner at position i of s: an object, a string, a number or one
\* of null, true, false; an object is scanned member by member, a later
\* member replacing an earlier one of the same key.
RECURSIVE ScanValue(_, _), ScanMembers(_, _, _)
ScanValue(s, i) ==
    IF i > Len(s) THEN NoScan
    ELSE IF s[i] = QUOTE THEN ScanString(s, i)
    ELSE IF s[i] = "{"
         THEN LET j == SkipWs(s, i + 1)
              IN  IF j <= Len(s) /\ s[j] = "}"
                  THEN Scanned(JsonObject(<<>>), j + 1)
                  ELSE ScanMembers(s, j, <<>>)
    ELSE IF IsDigit(s[i]) THEN ScanNumber(s, i)
    ELSE IF StartsWith(s, i, <<"n", "u", "l", "l">>) THEN Scanned(None, i + 4)
    ELSE IF StartsWith(s, i, <<"t", "r", "u", "e">>)
         THEN Scanned(PyBool(TRUE), i + 4)
    ELSE IF StartsWith(s, i, <<"f", "a", "l", "s", "e">>)
         THEN Scanned(PyBool(FALSE), i + 5)
    ELSE NoScan

\* The members of an object from position i (a key is expected there), items
\* being the members scanned so far.
ScanMembers(s, i, items) ==
    IF i > Len(s) \/ s[i] # QUOTE THEN NoScan
    ELSE LET key == ScanString(s, i)
         IN  IF ~key.ok THEN NoScan
             ELSE LET colon == SkipWs(s, key.next)
                  IN  IF colon > Len(s) \/ s[colon] # ":" THEN NoScan
                      ELSE LET v == ScanValue(s, SkipWs(s, colon + 1))
                           IN  IF ~v.ok THEN NoScan
                               ELSE LET more == (key.val.s :> v.val) @@ items
                                        sep == SkipWs(s, v.next)
                                    IN  IF sep > Len(s) THEN NoScan
                                        ELSE IF s[sep] = "}"
                                        THEN Scanned(JsonObject(more), sep + 1)
                                        ELSE IF s[sep] = ","
                                        THEN ScanMembers(s, SkipWs(s, sep + 1),
                                                         more)
                                        ELSE NoScan

\* json.loads(s): the one JSON value of s between optional whitespace;
\* JSONDecodeError when there is none or when anything follows it.
json_loads(s) ==
    LET r == ScanValue(s, SkipWs(s, 1))
    IN  IF ~r.ok THEN Raised("JSONDecodeError")
        ELSE IF SkipWs(s, r.next) <= Len(s) THEN Raised("JSONDecodeError")
        ELSE r.val

\* re.search(r'\{.*\}', content, re.DOTALL).group(0): with DOTALL the greedy
\* .* runs from the first opening brace to the last closing brace after it;
\* None when there is no such pair.
re_search_braces(content) ==
    LET opens == {k \in 1..Len(content) : content[k] = "{"}
    IN  IF opens = {} THEN None
        ELSE LET a == CHOOSE x \in opens : \A y \in opens : x <= y
                 closes == {k \in (a + 1)..Len(content) : content[k] = "}"}
             IN  IF closes = {} THEN None
                 ELSE Str(SubSeq(content, a,
                        CHOOSE x \in closes : \A y \in closes : x >= y))

\* content.strip() is empty.
Blank(s) == \A k \in 1..Len(s) : s[k] \in Whitespace

\* data["choices"][0]["message"]["content"], or the error the lookup raises.
ContentOf(answer) ==
    IF "choices" \notin DOMAIN answer THEN Raised("KeyError")
    ELSE IF Len(answer.choices) = 0 THEN Raised("IndexError")
    ELSE IF "message" \notin DOMAIN answer.choices[1] THEN Raised("KeyError")
    ELSE IF "content" \notin DOMAIN answer.choices[1].message
         THEN Raised("KeyError")
    ELSE answer.choices[1].message.content

\* The recovery of the JSON object from a content that is not blank: the
\* whole content if it is JSON, else the text between the braces.
RecoverJson(content) ==
    IF ~IsRaised(json_loads(content)) THEN json_loads(content)
    ELSE IF IsNone(re_search_braces(content)) THEN Raised("RuntimeError")
    ELSE json_loads(re_search_braces(content).s)

\* call_deepseek_for_income_statement(table_text), given the key of the
\* environment and the service's answer [status, data].
call_deepseek_for_income_statement(key, answer) ==
    IF IsNone(key) THEN Raised("RuntimeError")
    ELSE IF answer.status # 200 THEN Raised("HTTPError")
    ELSE IF "error" \in DOMAIN answer.data THEN Raised("RuntimeError")
    ELSE IF IsRaised(ContentOf(answer.data)) THEN ContentOf(answer.data)
    ELSE IF IsNone(ContentOf(answer.data)) THEN Raised("RuntimeError")
    ELSE IF Blank(ContentOf(answer.data).s) THEN Raised("RuntimeError")
    ELSE RecoverJson(ContentOf(answer.data).s)

----------------------------------------------------------------------------
(* The locator called on a fetched filing history.                         *)

\* The period ends a history entry may carry ("" : no report date).
ReportDates ==
    {Str(<<>>), Str(Date(2020, 12, 31)), Str(Date(2021, 6, 30)),
     Str(Date(2021, 12, 31)), Str(Date(2023, 12, 31))}

\* The form types a history entry may carry.
HistoryForms == {Str(FORM_10K), Str(FORM_10KA)}

\* The YEAR argument: absent, or a year.
YearArgs == {None, PyInt(2019), PyInt(2021), PyInt(2022)}

\* The history with the given forms and report dates: parallel arrays of
\* equal length, the accession number and the document name naming the entry.
History(forms, dates) ==
    [form |-> forms,
     accessionNumber |-> [i \in 1..Len(forms) |-> Str(<<"A", DigitChar(i)>>)],
     primaryDocument |-> [i \in 1..Len(forms) |-> Str(<<"a", DigitChar(i)>>)],
     reportDate |-> dates]

\* The histories of n entries.
Histories(n) ==
    {History(f, d) : f \in [1..n -> HistoryForms], d \in [1..n -> ReportDates]}

NoFacts == [ns \in {} |-> None]
NoResults == [k \in {} |-> None]

\* No call of call_deepseek_for_income_statement is under way.
NoDeepseek == api_key = None /\ resp = None /\ fin = None

\* No download utility is running.
NoDownload ==
    /\ util = "none" /\ num_filings = 0 /\ form_i = 0
    /\ downloaded_files = <<>> /\ events = <<>>

\* The variables of the run that a call on its own leaves alone.
NoRun ==
    /\ ticker = None /\ mapping = NoResults /\ cik = None
    /\ requests = <<>> /\ error = None /\ report = NoResults
    /\ exit_code = None

InitLocate ==
    /\ NoRun
    /\ pc = "locate"
    /\ year \in YearArgs
    /\ \E n \in 0..MaxFilings : recent \in Histories(n)
    /\ meta = None
    /\ facts_root = NoFacts
    /\ concept_candidates = <<>>
    /\ target_end = None
    /\ picked = <<None, None>>
    /\ results = NoResults
    /\ margins = NoResults
    /\ llm_margins = NoResults
    /\ NoDeepseek /\ NoDownload

\* meta = get_10k_metadata(cik, year)
Locate ==
    /\ pc = "locate"
    /\ meta' = get_10k_metadata(recent, year)
    /\ pc' = "located"
    /\ UNCHANGED <<ticker, year, mapping, cik, requests, error, recent,
                   facts_root, concept_candidates, target_end, picked,
                   results, margins, report, exit_code>>
    /\ UNCHANGED <<llm_margins, deepseek_vars, download_vars>>

NextLocate == Locate

SpecLocate == InitLocate /\ [][NextLocate]_vars

----------------------------------------------------------------------------
(* The resolver called on a fetched fact store.                            *)

\* A field a fact does not have.
Absent == [t |-> "absent"]

\* The fact with the given fields, leaving out the absent ones.
Fact(end, form, fp, filed, val) ==
    LET all == [end |-> end, form |-> form, fp |-> fp, filed |-> filed,
                val |-> val]
    IN  [k \in {x \in DOMAIN all : all[x] # Absent} |-> all[k]]

\* The target period end of the harness, and the other dates of its facts.
TargetEnd == Str(Date(2023, 12, 31))
SameYearEnd == Str(Date(2023, 6, 30))
OtherYearEnd == Str(Date(2022, 12, 31))
FiledEarly == Str(Date(2024, 2, 1))
FiledLate == Str(Date(2024, 3, 1))
FP_FY == Str(<<"F", "Y">>)
FP_Y == Str(<<"Y">>)
FP_Q2 == Str(<<"Q", "2">>)

\* The facts a concept under study may hold; each has its own val, so the
\* chosen fact shows in the result.
FactPool ==
    { Fact(TargetEnd, Str(FORM_10K), FP_FY, FiledLate, PyInt(11)),
      Fact(TargetEnd, Str(FORM_10KA), Absent, FiledLate, PyInt(12)),
      Fact(TargetEnd, Str(FORM_10K), FP_FY, FiledLate, None),
      Fact(TargetEnd, Str(FORM_10K), FP_Q2, FiledLate, PyInt(13)),
      Fact(OtherYearEnd, Str(FORM_10K), FP_Y, FiledEarly, Str(<<"1", "4">>)),
      Fact(OtherYearEnd, Str(FORM_10KA), FP_Q2, FiledLate, PyInt(15)),
      Fact(SameYearEnd, Str(FORM_10Q), FP_Q2, FiledEarly, PyInt(16)),
      Fact(TargetEnd, Str(FORM_10Q), FP_Q2, FiledLate, PyInt(17)),
      Fact(SameYearEnd, Absent, Absent, Absent, PyInt(18)),
      Fact(SameYearEnd, Str(FORM_10Q), FP_Q2, FiledLate, Str(<<"a", "b">>)),
      Fact(OtherYearEnd, Str(FORM_10Q), FP_Q2, FiledLate, PyInt(19)),
      Fact(TargetEnd, Str(FORM_10K), FP_FY, Absent, PyInt(20)) }

\* The sequences of at most n facts of the pool.
FactSeqs(n) == UNION {[1..k -> FactPool] : k \in 0..n}

USD == Str(<<"U", "S", "D">>)
SHARES == Str(<<"s", "h", "a", "r", "e", "s">>)

\* The concept objects of the concept under study: no units key, no unit,
\* one unit, or two units, with at most MaxFacts facts in all.
StudyConcepts ==
    {[x \in {} |-> None], [label |-> Str(<<"a">>)], [units |-> <<>>]}
    \cup {[units |-> << <<USD, fs>> >>] : fs \in FactSeqs(MaxFacts)}
    \cup {[units |-> << <<USD, Prefix(fs, k)>>,
                        <<SHARES, SubSeq(fs, Min2(k, Len(fs)) + 1, Len(fs))>> >>] :
            fs \in FactSeqs(MaxFacts) \ {<<>>}, k \in 0..MaxFacts}

\* The concept objects of the other names of the list, with val v: one
\* usable fact, one fact without a value, one fact no stage matches.
OtherConcepts(v) ==
    { [units |-> << <<USD, <<Fact(TargetEnd, Str(FORM_10K), FP_FY,
                                 FiledEarly, PyInt(v))>> >> >>],
      [units |-> << <<USD, <<Fact(TargetEnd, Str(FORM_10K), FP_FY,
                                 FiledEarly, None)>> >> >>],
      [units |-> << <<USD, <<Fact(OtherYearEnd, Str(FORM_10Q), FP_Q2,
                                 FiledEarly, PyInt(v))>> >> >>] }

\* The dict with the keys of `keys` whose value is not Absent.
DictOf(keys, value) ==
    [k \in {x \in keys : value[x] # Absent} |-> value[k]]

\* The fact stores of the harness, for the three-name list `names`: the
\* second name is the concept under study.
FactStores(names) ==
    { [ns \in {} |-> None], [dei |-> NoConcepts] }
    \cup
    { ("us-gaap" :> DictOf({names[1], names[2], names[3]},
                          (names[1] :> c1) @@ (names[2] :> c2) @@ (names[3] :> c3))) :
        c1 \in {Absent} \cup OtherConcepts(31),
        c2 \in {Absent} \cup StudyConcepts,
        c3 \in {Absent} \cup OtherConcepts(33) }

InitPick ==
    /\ NoRun
    /\ pc = "pick"
    /\ year = None
    /\ recent = NoResults
    /\ meta = None
    /\ concept_candidates = OPERATING_INCOME_CONCEPTS
    /\ facts_root \in FactStores(concept_candidates)
    /\ target_end = TargetEnd
    /\ picked = <<None, None>>
    /\ results = NoResults
    /\ margins = NoResults
    /\ llm_margins = NoResults
    /\ NoDeepseek /\ NoDownload

\* val, concept = pick_fact_value(facts_root, concept_candidates, target_end)
Pick ==
    /\ pc = "pick"
    /\ picked' = pick_fact_value(facts_root, concept_candidates, target_end)
    /\ facts_root' = StoreAfter(facts_root, concept_candidates, target_end)
    /\ pc' = "picked"
    /\ UNCHANGED <<ticker, year, mapping, cik, requests, error, recent,
                   meta, concept_candidates, target_end, results,
                   margins, report, exit_code>>
    /\ UNCHANGED <<llm_margins, deepseek_vars, download_vars>>

NextPick == Pick

SpecPick == InitPick /\ [][NextPick]_vars

----------------------------------------------------------------------------
(* The margin calculator called on a record of figures.                    *)

\* The figures compute_margins reads.
FinKeys ==
    {"net_sales", "gross_profit", "operating_income", "net_income", "ebitda"}

\* What a figure may be: missing, null, an amount, or a string (a digit
\* string as a language model may write a number, or no number at all).
Amounts ==
    {Absent, None, Str(<<"0">>), Str(<<"a", "b">>), Float(-1, 1)}
    \cup {Float(n, 1) : n \in 0..MaxAmount}

\* A record of plain amounts: net sales 1000 with the four numerators.
ExampleFigures ==
    [net_sales |-> Float(1000, 1), gross_profit |-> Float(400, 1),
     operating_income |-> Float(200, 1), net_income |-> Float(100, 1),
     ebitda |-> Float(250, 1)]

InitMargins ==
    /\ NoRun
    /\ pc = "compute"
    /\ year = None
    /\ recent = NoResults
    /\ meta = None
    /\ facts_root = NoFacts
    /\ concept_candidates = <<>>
    /\ target_end = None
    /\ picked = <<None, None>>
    /\ \/ \E figures \in [FinKeys -> Amounts] :
              results = DictOf(FinKeys, figures)
       \/ results = ExampleFigures
    /\ margins = NoResults
    /\ llm_margins = NoResults
    /\ NoDeepseek /\ NoDownload

\* margins = compute_margins(results), by each program's compute_margins
Compute ==
    /\ pc = "compute"
    /\ margins' = compute_margins(results)
    /\ llm_margins' = llm_compute_margins(results)
    /\ pc' = "computed"
    /\ UNCHANGED <<ticker, year, mapping, cik, requests, error, recent,
                   meta, facts_root, concept_candidates, target_end, picked,
                   results, report, exit_code>>
    /\ UNCHANGED <<deepseek_vars, download_vars>>

NextMargins == Compute

SpecMargins == InitMargins /\ [][NextMargins]_vars

----------------------------------------------------------------------------
(* call_deepseek_for_income_statement called on an answer of the service.  *)

\* Texts a language model may write before the object: nothing, "Sure! ".
LeadingTexts == {<<>>, <<"S", "u", "r", "e", "!", " ">>}

\* The object the model was asked for, as JSON text: nothing,
\* {"net_sales": 500}, {"net_sales": 500, "ebitda": null}, {"a": {"b": 1}},
\* {} and {"net_sales": } (no value).
ObjectTexts ==
    {<<>>,
     <<"{", "\"", "n", "e", "t", "_", "s", "a", "l", "e", "s", "\"", ":",
       " ", "5", "0", "0", "}">>,
     <<"{", "\"", "n", "e", "t", "_", "s", "a", "l", "e", "s", "\"", ":",
       " ", "5", "0", "0", ",", " ", "\"", "e", "b", "i", "t", "d", "a",
       "\"", ":", " ", "n", "u", "l", "l", "}">>,
     <<"{", "\"", "a", "\"", ":", " ", "{", "\"", "b", "\"", ":", " ", "1",
       "}", "}">>,
     <<"{", "}">>,
     <<"{", "\"", "n", "e", "t", "_", "s", "a", "l", "e", "s", "\"", ":",
       " ", "}">>}

\* Texts after the object: nothing, " ok", " {USD}", " }".
TrailingTexts ==
    {<<>>, <<" ", "o", "k">>, <<" ", "{", "U", "S", "D", "}">>, <<" ", "}">>}

\* The contents of the model's message: an object text inside the texts
\* around it, or nothing but whitespace.
Contents ==
    {pre \o obj \o post :
        pre \in LeadingTexts, obj \in ObjectTexts, post \in TrailingTexts}
    \cup {<<" ", "\n">>}

\* The message of an answer in the OpenAI-compatible format.
Choice(content) == [message |-> [content |-> content]]

\* What the service may answer: an HTTP error, an API-level error, an answer
\* without choices, a null content, or a content of the model.
ServiceAnswers ==
    {[status |-> 500, data |-> NoResults],
     [status |-> 200, data |-> [error |-> Str(<<"b", "a", "d">>)]],
     [status |-> 200, data |-> [choices |-> <<>>]],
     [status |-> 200, data |-> [choices |-> <<Choice(None)>>]]}
    \cup {[status |-> 200, data |-> [choices |-> <<Choice(Str(c))>>]] :
            c \in Contents}

InitDeepseek ==
    /\ NoRun
    /\ pc = "call"
    /\ year = None
    /\ recent = NoResults
    /\ meta = None
    /\ facts_root = NoFacts
    /\ concept_candidates = <<>>
    /\ target_end = None
    /\ picked = <<None, None>>
    /\ results = NoResults
    /\ margins = NoResults
    /\ llm_margins = NoResults
    /\ api_key \in {None, Str(<<"k">>)}
    /\ resp \in ServiceAnswers
    /\ fin = None
    /\ NoDownload

\* fin = call_deepseek_for_income_statement(table_text)
CallDeepseek ==
    /\ pc = "call"
    /\ fin' = call_deepseek_for_income_statement(api_key, resp)
    /\ pc' = "called"
    /\ UNCHANGED <<ticker, year, mapping, cik, requests, error, recent,
                   meta, facts_root, concept_candidates, target_end, picked,
                   results, margins, report, exit_code, llm_margins,
                   api_key, resp, download_vars>>

NextDeepseek == CallDeepseek

SpecDeepseek == InitDeepseek /\ [][NextDeepseek]_vars

----------------------------------------------------------------------------
(* The download utilities: download_10k_filings of                         *)
(* sec_company_facts_api_download.py and get_10k_filings of                *)
(* sec_direct_edgar_api_download.py, one call each.                        *)

\* The utilities, by the function called.
COMPANY_FACTS == "download_10k_filings"
DIRECT_EDGAR == "get_10k_filings"

\* What a document request may come to: a status code, or an exception
\* raised by requests.get.
Outcomes == {"200", "404", "raise"}

\* data["filings"]["recent"] with the given rows <<form, document name>>:
\* parallel arrays of equal length, the accession number and the filing date
\* naming the row.
RecentFilings(rows) ==
    [form |-> [i \in 1..Len(rows) |-> rows[i][1]],
     accessionNumber |-> [i \in 1..Len(rows) |-> Str(<<"A", DigitChar(i)>>)],
     filingDate |-> [i \in 1..Len(rows) |-> Str(<<"D", DigitChar(i)>>)],
     primaryDocument |-> [i \in 1..Len(rows) |-> rows[i][2]]]

\* The recent filings the submissions endpoint may answer: none, or up to
\* MaxForms rows, each a 10-K with a document, a 10-K without a primary
\* document (an empty name), or a 10-Q.
Submissions ==
    {NoResults} \cup
    {RecentFilings(rows) :
        rows \in UNION {[1..n -> {<<Str(FORM_10K), Str(<<"d">>)>>,
                                  <<Str(FORM_10K), Str(<<>>)>>,
                                  <<Str(FORM_10Q), Str(<<"d">>)>>}] :
                          n \in 1..MaxForms}}

InitDownload ==
    /\ NoRun
    /\ pc = "submissions"
    /\ year = None
    /\ recent = NoResults
    /\ meta = None
    /\ facts_root = NoFacts
    /\ concept_candidates = <<>>
    /\ target_end = None
    /\ picked = <<None, None>>
    /\ results = NoResults
    /\ margins = NoResults
    /\ llm_margins = NoResults
    /\ NoDeepseek
    /\ util \in {COMPANY_FACTS, DIRECT_EDGAR}
    /\ num_filings \in 1..MaxForms
    /\ form_i = 0
    /\ downloaded_files = <<>>
    /\ events = <<>>

\* What a step of a download call leaves alone.
DownloadFrame ==
    UNCHANGED <<ticker, year, mapping, cik, requests, error, meta, facts_root,
                concept_candidates, target_end, picked, results, margins,
                report, exit_code, llm_margins, deepseek_vars, util,
                num_filings>>

\* `return []`: on a failed lookup, and in the except clause.
ReturnEmpty == downloaded_files' = <<>> /\ pc' = "returned"

\* The CIK lookup and the submissions request: the call returns [] when
\* either fails or there are no recent filings (download_10k_filings tests
\* for them, get_10k_filings raises KeyError on recent_filings['form']);
\* otherwise the loop over the forms starts with downloaded_files = [].
GetSubmissions ==
    /\ pc = "submissions"
    /\ \/ ReturnEmpty /\ UNCHANGED recent
       \/ \E rec \in Submissions :
            /\ recent' = rec
            /\ IF rec = NoResults THEN ReturnEmpty
               ELSE pc' = "loop" /\ UNCHANGED downloaded_files
    /\ UNCHANGED <<form_i, events>>
    /\ DownloadFrame

\* The document request of row i and what follows it in the loop body:
\* on status 200 the file is saved, its name (of the filing date, and in
\* get_10k_filings the accession number) appended, and the call sleeps
\* (time.sleep(0.1)); on another status the loop goes on; an exception ends
\* the call with []. The request and the sleep are entered in the log.
RequestDocument(i) ==
    \E outcome \in Outcomes :
        /\ form_i' = i
        /\ events' = Append(events, <<"requests.get", outcome>>)
                        \o (IF outcome = "200"
                            THEN << <<"time.sleep", "0.1">> >> ELSE <<>>)
        /\ CASE outcome = "200" ->
                  /\ downloaded_files' =
                        Append(downloaded_files,
                               IF util = COMPANY_FACTS
                               THEN <<recent.filingDate[i]>>
                               ELSE <<recent.filingDate[i],
                                      recent.accessionNumber[i]>>)
                  /\ pc' = "loop"
             [] outcome = "raise" -> ReturnEmpty
             [] OTHER -> pc' = "loop" /\ UNCHANGED downloaded_files

\* The loop body skips row i.
SkipRow(i) ==
    /\ form_i' = i /\ pc' = "loop"
    /\ UNCHANGED <<downloaded_files, events>>

\* One turn of `for i in range(len(form_list))` in download_10k_filings.
download_10k_filings_Turn ==
    /\ pc = "loop" /\ util = COMPANY_FACTS
    /\ form_i < Len(recent.form)
    /\ LET i == form_i + 1
       IN  IF /\ recent.form[i] = Str(FORM_10K)
              /\ Len(downloaded_files) < num_filings
              /\ i <= Len(recent.accessionNumber)
              /\ i <= Len(recent.filingDate)
              /\ i <= Len(recent.primaryDocument)
              /\ Truthy(recent.primaryDocument[i])
           THEN RequestDocument(i)
           ELSE SkipRow(i)
    /\ UNCHANGED recent
    /\ DownloadFrame

\* One turn of `for i, form in enumerate(recent_filings['form'])` in
\* get_10k_filings.
get_10k_filings_Turn ==
    /\ pc = "loop" /\ util = DIRECT_EDGAR
    /\ form_i < Len(recent.form)
    /\ LET i == form_i + 1
       IN  IF /\ recent.form[i] = Str(FORM_10K)
              /\ Len(downloaded_files) < num_filings
           THEN RequestDocument(i)
           ELSE SkipRow(i)
    /\ UNCHANGED recent
    /\ DownloadFrame

\* return downloaded_files
ReturnFiles ==
    /\ pc = "loop"
    /\ form_i = Len(recent.form)
    /\ pc' = "returned"
    /\ UNCHANGED <<recent, form_i, downloaded_files, events>>
    /\ DownloadFrame

NextDownload ==
    \/ GetSubmissions
    \/ download_10k_filings_Turn
    \/ get_10k_filings_Turn
    \/ ReturnFiles

SpecDownload == InitDownload /\ [][NextDownload]_vars

----------------------------------------------------------------------------
(* main: one run of the XBRL program, TICKER [YEAR].                       *)

\* str.upper(), for the letters tickers of the model use.
LowerLetters == <<"a", "b">>
UpperLetters == <<"A", "B">>

UpperChar(c) ==
    IF \E i \in 1..Len(LowerLetters) : LowerLetters[i] = c
    THEN UpperLetters[CHOOSE i \in 1..Len(LowerLetters) : LowerLetters[i] = c]
    ELSE c

Upper(s) == [i \in 1..Len(s) |-> UpperChar(s[i])]

\* get_ticker_cik_map: mapping[entry["ticker"].upper()] = int(entry["cik_str"])
\* for the entries of the payload in order (a later entry overwrites).
get_ticker_cik_map(data) ==
    LET M[i \in 0..Len(data)] ==
            IF i = 0 THEN NoResults
            ELSE (Upper(data[i].ticker.s) :> data[i].cik_str.n) @@ M[i - 1]
    IN  M[Len(data)]

\* get_cik_for_ticker looking up the ticker as typed, without upper().
get_cik_for_ticker_AsTyped(map, tk) ==
    IF tk.s \notin DOMAIN map
    THEN Raised("ValueError: Ticker not found in SEC ticker list.")
    ELSE PyInt(map[tk.s])

\* get_cik_for_ticker, given the mapping: the CIK, or the ValueError.
get_cik_for_ticker(map, tk) ==
    IF Upper(tk.s) \notin DOMAIN map
    THEN Raised("ValueError: Ticker not found in SEC ticker list.")
    ELSE PyInt(map[Upper(tk.s)])

\* a - b and a + b for two floats
FloatSub(a, b) == Float(a.num * b.den - b.num * a.den, a.den * b.den)
FloatAdd(a, b) == Float(a.num * b.den + b.num * a.den, a.den * b.den)

\* The results dict as main first builds it.
InitialResults(end) ==
    [fiscal_year_end |-> end, currency |-> Str("USD"),
     net_sales |-> None, net_sales_concept |-> None,
     cost_of_revenue |-> None, cost_of_revenue_concept |-> None,
     gross_profit |-> None, gross_profit_concept |-> None,
     operating_income |-> None, operating_income_concept |-> None,
     net_income |-> None, net_income_concept |-> None,
     depreciation_and_amortization |-> None, depr_amort_concept |-> None,
     ebitda |-> None, ebitda_concept |-> None]

\* The gross profit stored with `val is None` left out of the test: derived
\* whenever both inputs are there.
GrossProfitOf_Clobber(r, res) ==
    IF ~IsNone(res["net_sales"]) /\ ~IsNone(res["cost_of_revenue"])
    THEN <<FloatSub(res["net_sales"], res["cost_of_revenue"]),
           Str("Derived: net_sales - cost_of_revenue")>>
    ELSE r

\* The gross profit main stores, given the resolver's result r: derived from
\* net sales and cost of revenue when r has no value and both are there.
GrossProfitOf(r, res) ==
    IF IsNone(r[1]) /\ ~IsNone(res["net_sales"])
        /\ ~IsNone(res["cost_of_revenue"])
    THEN <<FloatSub(res["net_sales"], res["cost_of_revenue"]),
           Str("Derived: net_sales - cost_of_revenue")>>
    ELSE r

\* The EBITDA main stores, given the resolver's result r: derived from
\* operating income and D&A when r has no value and both are there.
EbitdaOf(r, res) ==
    IF IsNone(r[1])
    THEN IF ~IsNone(res["operating_income"])
            /\ ~IsNone(res["depreciation_and_amortization"])
         THEN <<FloatAdd(res["operating_income"],
                         res["depreciation_and_amortization"]),
                Str("Derived: operating_income + depreciation_and_amortization")>>
         ELSE r
    ELSE r

\* n / d rounded to the nearest integer, halves to the even one (d > 0).
RoundDiv(n, d) ==
    LET q == n \div d
        r == n % d
    IN  IF 2 * r > d \/ (2 * r = d /\ q % 2 = 1) THEN q + 1 ELSE q

\* The report line of a margin: "N/A", or the fraction printed with four
\* decimals and the percentage with two (both are v in ten-thousandths).
ReportLine(v) ==
    IF v = None THEN Str("N/A")
    ELSE [t |-> "text", fixed4 |-> RoundDiv(v.num * 10000, v.den),
          pct2 |-> RoundDiv(v.num * 100 * 100, v.den)]

\* The ticker payloads the mapping endpoint may answer.
TickerPayloads ==
    { <<>>,
      <<[ticker |-> Str(<<"B">>), cik_str |-> PyInt(5)]>>,
      <<[ticker |-> Str(<<"A", "B">>), cik_str |-> PyInt(7)],
        [ticker |-> Str(<<"B">>), cik_str |-> PyInt(5)]>>,
      <<[ticker |-> Str(<<"A", "b">>), cik_str |-> PyInt(8)]>> }

\* The filing histories the submissions endpoint may answer in a run.
RunHistories ==
    { History(<<>>, <<>>),
      History(<<Str(FORM_10KA)>>, <<Str(Date(2023, 12, 31))>>),
      History(<<Str(FORM_10K)>>, <<Str(Date(2023, 12, 31))>>),
      History(<<Str(FORM_10K), Str(FORM_10K)>>,
              <<Str(Date(2023, 12, 31)), Str(Date(2021, 12, 31))>>) }

\* A concept tagged with one annual fact of the given value.
Tagged(name, v) ==
    [name |-> name,
     obj |-> [units |-> << <<USD, <<Fact(TargetEnd, Str(FORM_10K), FP_FY,
                                         FiledEarly, PyInt(v))>> >> >>]]

\* A concept tagged with one quarterly fact of the target's year only.
TaggedQuarterly(name, v) ==
    [name |-> name,
     obj |-> [units |-> << <<USD, <<Fact(SameYearEnd, Str(FORM_10Q), FP_Q2,
                                         FiledEarly, PyInt(v))>> >> >>]]

\* For each figure, how a run's payload may tag it: not at all, or under a
\* name of its list.
FigureTags ==
    << {Absent, Tagged("Revenues", 1000), Tagged("PremiumsEarnedNet", 0)},
       {Absent, Tagged("CostOfRevenue", 600)},
       {Absent, Tagged("GrossProfit", 450),
        Tagged("GrossProfitExcludingDepreciationDepletionAndAmortization", 470)},
       {Absent, Tagged("OperatingIncomeLoss", 200),
        TaggedQuarterly("OperatingIncomeLoss", 90)},
       {Absent, Tagged("NetIncomeLoss", 100)},
       {Absent, Tagged("DepreciationAndAmortization", 50)},
       {Absent, Tagged("EarningsBeforeInterestTaxesDepreciationAndAmortization", 260)} >>

\* The us-gaap concepts of the choice ch of one tag per figure.
ConceptsOf(ch) ==
    [n \in {ch[i].name : i \in {k \in 1..Len(ch) : ch[k] # Absent}} |->
        (CHOOSE c \in {ch[i] : i \in {k \in 1..Len(ch) : ch[k] # Absent}} :
            c.name = n).obj]

\* The companyfacts payloads a run may fetch.
CompanyFacts ==
    { [cik |-> PyInt(7)], [facts |-> NoFacts], [facts |-> [dei |-> NoConcepts]] }
    \cup
    { [facts |-> ("us-gaap" :> ConceptsOf(<<t1, t2, t3, t4, t5, t6, t7>>))] :
        t1 \in FigureTags[1], t2 \in FigureTags[2], t3 \in FigureTags[3],
        t4 \in FigureTags[4], t5 \in FigureTags[5], t6 \in FigureTags[6],
        t7 \in FigureTags[7] }

Init ==
    /\ pc = "start"
    /\ ticker \in {None, Str(<<"a", "b">>)}
    /\ year \in {None, PyInt(2021)}
    /\ mapping = NoResults
    /\ cik = None
    /\ requests = <<>>
    /\ error = None
    /\ recent = NoResults
    /\ meta = None
    /\ facts_root = NoFacts
    /\ concept_candidates = <<>>
    /\ target_end = None
    /\ picked = <<None, None>>
    /\ results = NoResults
    /\ margins = NoResults
    /\ report = NoResults
    /\ exit_code = None
    /\ llm_margins = NoResults
    /\ NoDeepseek /\ NoDownload

\* An uncaught exception e ends the run with exit code 1.
Abort(e) == error' = e /\ pc' = "aborted" /\ exit_code' = PyInt(1)

\* if len(sys.argv) < 2: usage, sys.exit(1); else the arguments are read.
Start ==
    /\ pc = "start"
    /\ IF IsNone(ticker)
       THEN pc' = "exited" /\ exit_code' = PyInt(1)
       ELSE pc' = "get_cik" /\ exit_code' = exit_code
    /\ UNCHANGED <<ticker, year, mapping, cik, requests, error, recent, meta,
                   facts_root, concept_candidates, target_end, picked,
                   results, margins, report>>
    /\ UNCHANGED <<llm_margins, deepseek_vars, download_vars>>

\* cik = get_cik_for_ticker(ticker): one request for the mapping, then the
\* lookup of ticker.upper().
GetCik ==
    /\ pc = "get_cik"
    /\ requests' = Append(requests, "company_tickers")
    /\ \/ /\ Abort(Raised("HTTPError"))
          /\ UNCHANGED <<mapping, cik>>
       \/ \E data \in TickerPayloads :
            /\ mapping' = get_ticker_cik_map(data)
            /\ IF IsRaised(get_cik_for_ticker(mapping', ticker))
               THEN Abort(get_cik_for_ticker(mapping', ticker))
                    /\ cik' = cik
               ELSE /\ cik' = get_cik_for_ticker(mapping', ticker)
                    /\ pc' = "get_meta"
                    /\ UNCHANGED <<error, exit_code>>
    /\ UNCHANGED <<ticker, year, recent, meta, facts_root, concept_candidates,
                   target_end, picked, results, margins, report>>
    /\ UNCHANGED <<llm_margins, deepseek_vars, download_vars>>

\* The target with the day and month dropped: the filing's year only.
TargetEndOf_YearOnly(m) == Str(Prefix(m.report_date.s, 4))

\* target_end = meta["report_date"]
TargetEndOf(m) == m.report_date

\* meta = get_10k_metadata(cik, year); target_end = meta["report_date"]
GetMeta ==
    /\ pc = "get_meta"
    /\ requests' = Append(requests, "submissions")
    /\ \/ /\ Abort(Raised("HTTPError"))
          /\ UNCHANGED <<recent, meta, target_end>>
       \/ \E rec \in RunHistories :
            /\ recent' = rec
            /\ IF IsRaised(get_10k_metadata(rec, year))
               THEN Abort(get_10k_metadata(rec, year))
                    /\ UNCHANGED <<meta, target_end>>
               ELSE /\ meta' = get_10k_metadata(rec, year)
                    /\ target_end' = TargetEndOf(meta')
                    /\ pc' = "fetch_facts"
                    /\ UNCHANGED <<error, exit_code>>
    /\ UNCHANGED <<ticker, year, mapping, cik, facts_root, concept_candidates,
                   picked, results, margins, report>>
    /\ UNCHANGED <<llm_margins, deepseek_vars, download_vars>>

\* cf = fetch_companyfacts(cik); facts_root = cf.get("facts", {}); results = {...}
FetchFacts ==
    /\ pc = "fetch_facts"
    /\ requests' = Append(requests, "companyfacts")
    /\ \/ /\ Abort(Raised("HTTPError"))
          /\ UNCHANGED <<facts_root, results>>
       \/ \E cf \in CompanyFacts :
            /\ facts_root' = Get(cf, "facts", NoFacts)
            /\ results' = InitialResults(target_end)
            /\ pc' = "net_sales"
            /\ UNCHANGED <<error, exit_code>>
    /\ UNCHANGED <<ticker, year, mapping, cik, recent, meta,
                   concept_candidates, target_end, picked, margins, report>>
    /\ UNCHANGED <<llm_margins, deepseek_vars, download_vars>>

\* results[key] = val; results[concept_key] = concept
Store(res, key, concept_key, stored) ==
    [res EXCEPT ![key] = stored[1], ![concept_key] = stored[2]]

\* What main stores for a figure that is never derived.
AsPicked(r, res) == r

\* Resolve with the facts fetched again for the figure, not once per run.
Resolve_Refetch(at, concepts, key, concept_key, stored, next) ==
    /\ pc = at
    /\ concept_candidates' = concepts
    /\ requests' = Append(requests, "companyfacts")
    /\ picked' = pick_fact_value(facts_root, concepts, target_end)
    /\ results' = Store(results, key, concept_key, stored)
    /\ pc' = next
    /\ UNCHANGED <<ticker, year, mapping, cik, error, recent, meta,
                   facts_root, target_end, margins, report, exit_code>>
    /\ UNCHANGED <<llm_margins, deepseek_vars, download_vars>>

\* val, concept = pick_fact_value(facts_root, concepts, target_end), and the
\* pair main then stores under the two keys (stored, given the result of the
\* call, which is picked'); an exception the call raises is not caught and
\* ends the run.
Resolve(at, concepts, key, concept_key, stored, next) ==
    /\ pc = at
    /\ concept_candidates' = concepts
    /\ \E r \in {pick_fact_value(facts_root, concepts, target_end)} :
          IF IsRaised(r[1])
          THEN Abort(r[1]) /\ UNCHANGED <<picked, results>>
          ELSE /\ picked' = r
               /\ results' = Store(results, key, concept_key, stored)
               /\ pc' = next
               /\ UNCHANGED <<error, exit_code>>
    /\ facts_root' = StoreAfter(facts_root, concepts, target_end)
    /\ UNCHANGED <<ticker, year, mapping, cik, requests, recent, meta,
                   target_end, margins, report>>
    /\ UNCHANGED <<llm_margins, deepseek_vars, download_vars>>

PickNetSales ==
    Resolve("net_sales", NET_SALES_CONCEPTS, "net_sales", "net_sales_concept",
            AsPicked(picked', results),
            "cost_of_revenue")

PickCostOfRevenue ==
    Resolve("cost_of_revenue", COST_OF_REVENUE_CONCEPTS, "cost_of_revenue",
            "cost_of_revenue_concept",
            AsPicked(picked', results),
            "gross_profit")

PickGrossProfit ==
    Resolve("gross_profit", GROSS_PROFIT_CONCEPTS, "gross_profit",
            "gross_profit_concept",
            GrossProfitOf(picked', results),
            "operating_income")

PickOperatingIncome ==
    Resolve("operating_income", OPERATING_INCOME_CONCEPTS, "operating_income",
            "operating_income_concept",
            AsPicked(picked', results),
            "net_income")

PickNetIncome ==
    Resolve("net_income", NET_INCOME_CONCEPTS, "net_income",
            "net_income_concept",
            AsPicked(picked', results),
            "depr_amort")

PickDeprAmort ==
    Resolve("depr_amort", DEPR_AMORT_CONCEPTS, "depreciation_and_amortization",
            "depr_amort_concept",
            AsPicked(picked', results),
            "ebitda")

PickEbitda ==
    Resolve("ebitda", EBITDA_CONCEPTS, "ebitda", "ebitda_concept",
            EbitdaOf(picked',
                     results),
            "compute_margins")

\* margins = compute_margins(results)
ComputeMargins ==
    /\ pc = "compute_margins"
    /\ margins' = compute_margins(results)
    /\ pc' = "report"
    /\ UNCHANGED <<ticker, year, mapping, cik, requests, error, recent, meta,
                   facts_root, concept_candidates, target_end, picked,
                   results, report, exit_code>>
    /\ UNCHANGED <<llm_margins, deepseek_vars, download_vars>>

\* The loop that prints each margin; main returns and the process exits 0.
Report ==
    /\ pc = "report"
    /\ report' = [k \in DOMAIN margins |-> ReportLine(margins[k])]
    /\ pc' = "done"
    /\ exit_code' = PyInt(0)
    /\ UNCHANGED <<ticker, year, mapping, cik, requests, error, recent, meta,
                   facts_root, concept_candidates, target_end, picked,
                   results, margins>>
    /\ UNCHANGED <<llm_margins, deepseek_vars, download_vars>>

Next ==
    \/ Start \/ GetCik \/ GetMeta \/ FetchFacts
    \/ PickNetSales \/ PickCostOfRevenue \/ PickGrossProfit
    \/ PickOperatingIncome \/ PickNetIncome \/ PickDeprAmort \/ PickEbitda
    \/ ComputeMargins \/ Report

Spec == Init /\ [][Next]_vars

\* The run has a next step: each action's guard is its place in main.
Running == pc \notin {"done", "aborted", "exited"}

\* The run keeps going: the program is one sequential process, and each of
\* its steps returns or raises. This is weak fairness of Next, written with
\* Running for ENABLED <<Next>>_vars.
FairSpec == Spec /\ ([]<>(~Running) \/ []<><<Next>>_vars)

----------------------------------------------------------------------------
(* Claims about the margin calculator (SpecMargins).                       *)

\* The four margins, each with the figure that is its numerator.
MarginNumerator ==
    [net_sales_margin |-> "net_income", gross_margin |-> "gross_profit",
     operating_margin |-> "operating_income", ebitda_margin |-> "ebitda"]

\* Figure k of the record is null (or missing).
NullFigure(figures, k) == k \notin DOMAIN figures \/ figures[k] = None

\* Figure k of the record is a number equal to zero.
ZeroFigure(figures, k) ==
    k \in DOMAIN figures /\ figures[k].t = "float" /\ figures[k].num = 0

\* C10: compute_margins returns the four margins, each null or a finite
\* number (no exception, no division fault); all four are null when
\* net_sales is null or zero, and a margin is null when its numerator is.
C10_MarginNullZeroSafety ==
    pc = "computed"
    => /\ DOMAIN margins = DOMAIN MarginNumerator
       /\ \A m \in DOMAIN margins :
             /\ margins[m] = None
                  \/ (margins[m].t = "float" /\ margins[m].den > 0)
             /\ (NullFigure(results, "net_sales")
                    \/ ZeroFigure(results, "net_sales"))
                  => margins[m] = None
             /\ NullFigure(results, MarginNumerator[m]) => margins[m] = None

\* C10 witness: net_sales is zero and every numerator is a number; the four
\* margins are null.
C10_Witness ==
    /\ pc = "computed"
    /\ ZeroFigure(results, "net_sales")
    /\ \A m \in DOMAIN MarginNumerator :
          /\ ~NullFigure(results, MarginNumerator[m])
          /\ results[MarginNumerator[m]] = Float(1, 1)
    /\ \A m \in DOMAIN margins : margins[m] = None

\* Figure k of the record is a number: float() converts it.
NumberFigure(figures, k) ==
    ~NullFigure(figures, k) /\ ~IsRaised(FloatOf(figures[k]))

\* q is the number a / b (b not zero): q * b = a, by cross-multiplication.
IsQuotient(q, a, b) ==
    /\ q.t = "float" /\ q.den > 0
    /\ q.num * b.num * a.den = a.num * b.den * q.den

\* C11: when net_sales is a number other than zero, each margin whose
\* numerator is a number is that numerator divided by net_sales (net sales
\* 1000 with 400, 200, 100 and 250 gives 0.40, 0.20, 0.10 and 0.25), and
\* the compute_margins of the two programs return the same margins.
C11_MarginCorrectness ==
    pc = "computed"
    => /\ (NumberFigure(results, "net_sales")
             /\ FloatOf(results["net_sales"]).num # 0)
          => \A m \in DOMAIN MarginNumerator :
                NumberFigure(results, MarginNumerator[m])
                => IsQuotient(margins[m],
                              FloatOf(results[MarginNumerator[m]]),
                              FloatOf(results["net_sales"]))
       /\ results = ExampleFigures
          => margins = [net_sales_margin |-> Float(1, 10),
                        gross_margin |-> Float(2, 5),
                        operating_margin |-> Float(1, 5),
                        ebitda_margin |-> Float(1, 4)]
       /\ llm_margins = margins

\* C11 witness: the margins of the record with net sales 1000 are computed,
\* gross margin 0.40 by both programs.
C11_Witness ==
    /\ pc = "computed"
    /\ results = ExampleFigures
    /\ margins["gross_margin"] = Float(2, 5)
    /\ llm_margins["gross_margin"] = Float(2, 5)

----------------------------------------------------------------------------
(* Claims about the resolver (SpecPick).                                   *)

\* The concepts of the us-gaap namespace of a fact store.
UsGaapOf(root) == IF "us-gaap" \in DOMAIN root THEN root["us-gaap"] ELSE NoConcepts

\* The units of concept `name`, as <<unit, fact list>> in payload order.
UnitsOf(root, name) ==
    IF name \in DOMAIN UsGaapOf(root) /\ "units" \in DOMAIN UsGaapOf(root)[name]
    THEN UsGaapOf(root)[name].units ELSE <<>>

\* The places <<u, j>> of the facts of concept `name`: fact j of unit u.
Places(root, name) ==
    UNION {{<<u, j>> : j \in 1..Len(UnitsOf(root, name)[u][2])} :
            u \in 1..Len(UnitsOf(root, name))}

FactAt(root, name, p) == UnitsOf(root, name)[p[1]][2][p[2]]

\* p comes before q in the flattened order: unit order, then list order.
PlaceBefore(p, q) == p[1] < q[1] \/ (p[1] = q[1] /\ p[2] < q[2])

Family10K(f) == "form" \in DOMAIN f /\ Contains(f.form.s, FORM_10K)
FullYearOrAbsent(f) ==
    "fp" \notin DOMAIN f \/ f.fp = None \/ f.fp = FP_FY \/ f.fp = FP_Y
EndIs(f, target) == "end" \in DOMAIN f /\ f.end = target
EndYearIs(f, target) ==
    /\ "end" \in DOMAIN f /\ IsStr(f.end) /\ Len(f.end.s) >= 4
    /\ SubSeq(f.end.s, 1, 4) = SubSeq(target.s, 1, 4)

\* Whether fact f passes stage st (1: A .. 5: E) for the target period end.
PassesStage(f, target, st) ==
    CASE st = 1 -> EndIs(f, target) /\ Family10K(f) /\ FullYearOrAbsent(f)
      [] st = 2 -> EndIs(f, target) /\ Family10K(f)
      [] st = 3 -> Family10K(f) /\ FullYearOrAbsent(f)
      [] st = 4 -> Family10K(f)
      [] st = 5 -> EndYearIs(f, target)

\* The places of the facts of `name` that pass stage st.
StagePlaces(root, name, target, st) ==
    {p \in Places(root, name) : PassesStage(FactAt(root, name, p), target, st)}

\* The first stage with a fact of `name`, 0 when no stage has one.
MatchedStage(root, name, target) ==
    IF \E st \in 1..5 : StagePlaces(root, name, target, st) # {}
    THEN CHOOSE st \in 1..5 :
            /\ StagePlaces(root, name, target, st) # {}
            /\ \A e \in 1..(st - 1) : StagePlaces(root, name, target, e) = {}
    ELSE 0

\* The places of the matched stage.
MatchedPlaces(root, name, target) ==
    IF MatchedStage(root, name, target) = 0 THEN {}
    ELSE StagePlaces(root, name, target, MatchedStage(root, name, target))

\* f was filed no later than g; a fact without a filed date ranks below
\* every dated fact.
FiledLeq(f, g) ==
    \/ "filed" \notin DOMAIN f
    \/ "filed" \in DOMAIN g /\ DateLeq(f.filed.s, g.filed.s)

\* The place of the most recently filed fact among `places`, the first in
\* the flattened order among those filed last.
MostRecentPlace(root, name, places) ==
    CHOOSE p \in places :
        \A q \in places :
            /\ FiledLeq(FactAt(root, name, q), FactAt(root, name, p))
            /\ FiledLeq(FactAt(root, name, p), FactAt(root, name, q))
                  => (p = q \/ PlaceBefore(p, q))

\* A val that is a number or parses as one.
UsableVal(f) ==
    /\ "val" \in DOMAIN f
    /\ f.val.t = "int" \/ (f.val.t = "str" /\ IntParses(f.val.s))

\* The number a usable val stands for, as the float the resolver returns.
ValueOf(f) ==
    [t |-> "float", num |-> IF f.val.t = "int" THEN f.val.n ELSE IntOf(f.val.s),
     den |-> 1]

\* The fact the resolver is to choose for concept `name` (some stage matches).
ExpectedFact(root, name, target) ==
    FactAt(root, name,
           MostRecentPlace(root, name, MatchedPlaces(root, name, target)))

\* Concept `name` yields a usable value: a stage matches and the fact to
\* choose has a usable val.
Yields(root, name, target) ==
    /\ MatchedStage(root, name, target) # 0
    /\ UsableVal(ExpectedFact(root, name, target))

\* The facts of `places` in flattened order, each annotated with its unit.
RECURSIVE InOrder(_, _, _)
InOrder(root, name, places) ==
    IF places = {} THEN <<>>
    ELSE LET p == CHOOSE x \in places : \A q \in places : x = q \/ PlaceBefore(x, q)
         IN  <<WithUnit(FactAt(root, name, p), UnitsOf(root, name)[p[1]][1])>>
             \o InOrder(root, name, places \ {p})

\* The store holds facts for the second name of the list only.
OnlySecondName ==
    /\ Len(concept_candidates) = 3
    /\ DOMAIN UsGaapOf(facts_root) = {concept_candidates[2]}
    /\ Places(facts_root, concept_candidates[2]) # {}

\* C1 as stated: with facts for the second name only, the result is that
\* concept's value with the second name, never (null, null).
C1_AsStated ==
    (pc = "picked" /\ OnlySecondName)
    => /\ picked # <<None, None>>
       /\ picked[2] = Str(concept_candidates[2])

\* C1: with facts for the second name only, the result is never tagged with
\* the first or third name; it is the value of the fact chosen for the
\* second name, tagged with the second name, when some stage matches and
\* that fact's val is usable, and (null, null) otherwise.
C1_FallbackOrdering ==
    (pc = "picked" /\ OnlySecondName)
    => LET name == concept_candidates[2]
       IN  IF Yields(facts_root, name, target_end)
           THEN picked = <<ValueOf(ExpectedFact(facts_root, name, target_end)),
                           Str(name)>>
           ELSE picked = <<None, None>>

\* C1 witness: only the second name is present, and its value is returned.
C1_Witness ==
    /\ pc = "picked" /\ OnlySecondName
    /\ picked = <<Float(13, 1), Str(concept_candidates[2])>>

\* C2: for every concept of the store, the candidates the fact is chosen
\* from are the facts of the first non-empty stage A..E, in flattened
\* order, and the value returned is the val of one of them.
C2_StagePipeline ==
    pc = "picked"
    => /\ \A name \in DOMAIN UsGaapOf(facts_root) :
             StageCandidates(Flatten(UsGaapOf(facts_root)[name]), target_end)
               = InOrder(facts_root, name,
                         MatchedPlaces(facts_root, name, target_end))
       /\ picked # <<None, None>>
             => \E p \in MatchedPlaces(facts_root, picked[2].s, target_end) :
                   /\ UsableVal(FactAt(facts_root, picked[2].s, p))
                   /\ picked[1] = ValueOf(FactAt(facts_root, picked[2].s, p))

\* C2 witness: stage B (target end, 10-K, quarterly tag) is the first
\* non-empty stage although a fact of another year passes stage C; the
\* stage B fact's value is returned.
C2_Witness ==
    /\ pc = "picked" /\ OnlySecondName
    /\ MatchedStage(facts_root, concept_candidates[2], target_end) = 2
    /\ StagePlaces(facts_root, concept_candidates[2], target_end, 3) # {}
    /\ picked = <<Float(13, 1), Str(concept_candidates[2])>>

\* Concept i of the list matches at Stage E only.
StageEOnly(i) ==
    MatchedStage(facts_root, concept_candidates[i], target_end) = 5

\* C3 as stated: a concept that matches at Stage E only has its most
\* recently filed Stage-E value returned.
C3_AsStated ==
    pc = "picked"
    => \A i \in 1..Len(concept_candidates) :
          StageEOnly(i)
          => LET f == ExpectedFact(facts_root, concept_candidates[i], target_end)
             IN  /\ UsableVal(f)
                 /\ picked = <<ValueOf(f), Str(concept_candidates[i])>>

\* C3: when a concept matches at Stage E only and no earlier concept of the
\* list yields a usable value, the result is the value of the most recently
\* filed Stage-E match, tagged with that concept, provided that fact's val
\* is usable; otherwise the result is not tagged with that concept.
C3_RelaxationToStageE ==
    pc = "picked"
    => \A i \in 1..Len(concept_candidates) :
          (/\ StageEOnly(i)
           /\ \A j \in 1..(i - 1) :
                 ~Yields(facts_root, concept_candidates[j], target_end))
          => LET name == concept_candidates[i]
                 f == FactAt(facts_root, name,
                        MostRecentPlace(facts_root, name,
                            StagePlaces(facts_root, name, target_end, 5)))
             IN  IF UsableVal(f) THEN picked = <<ValueOf(f), Str(name)>>
                 ELSE picked[2] # Str(name)

\* C3 witness: the first name's fact has no value, the second name has two
\* facts matching on the calendar year only, and the later filed one, second
\* in the payload, is returned.
C3_Witness ==
    /\ pc = "picked" /\ StageEOnly(2)
    /\ concept_candidates[1] \in DOMAIN UsGaapOf(facts_root)
    /\ Cardinality(StagePlaces(facts_root, concept_candidates[2],
                               target_end, 5)) = 2
    /\ picked = <<Float(17, 1), Str(concept_candidates[2])>>
    /\ <<1, 1>> \in Places(facts_root, concept_candidates[2])
    /\ FactAt(facts_root, concept_candidates[2], <<1, 1>>).val = PyInt(16)

\* C4: for every concept a stage matches, the fact chosen is the most
\* recently filed of the matched stage (an undated fact below every dated
\* one), the first in flattened order among those filed last; a value
\* returned is that fact's.
C4_RecencyTieBreak ==
    pc = "picked"
    => /\ \A name \in DOMAIN UsGaapOf(facts_root) :
             MatchedStage(facts_root, name, target_end) # 0
             => LET p == MostRecentPlace(facts_root, name,
                            MatchedPlaces(facts_root, name, target_end))
                IN  Chosen(StageCandidates(Flatten(UsGaapOf(facts_root)[name]),
                                           target_end))
                      = WithUnit(FactAt(facts_root, name, p),
                                 UnitsOf(facts_root, name)[p[1]][1])
       /\ picked # <<None, None>>
             => picked[1] = ValueOf(ExpectedFact(facts_root, picked[2].s,
                                                 target_end))

\* C4 witness: two Stage-A facts filed the same day, in two units; the one
\* of the first unit is returned, and it is not the one with the greater
\* value.
C4_Witness ==
    /\ pc = "picked" /\ OnlySecondName
    /\ Len(UnitsOf(facts_root, concept_candidates[2])) = 2
    /\ {<<1, 1>>, <<2, 1>>} \subseteq Places(facts_root, concept_candidates[2])
    /\ FactAt(facts_root, concept_candidates[2], <<1, 1>>).val = PyInt(11)
    /\ FactAt(facts_root, concept_candidates[2], <<2, 1>>).val = PyInt(12)
    /\ picked = <<Float(11, 1), Str(concept_candidates[2])>>

\* Some fact of the matched stage of concept `name` has a usable val.
HasUsable(root, name, target) ==
    \E p \in MatchedPlaces(root, name, target) :
        UsableVal(FactAt(root, name, p))

\* The least index of a non-empty set of indices.
Earliest(idx) == CHOOSE i \in idx : \A j \in idx : i <= j

\* The indices of the listed concepts with a usable fact in the matched
\* stage, and of those whose chosen fact is usable.
WithUsable ==
    {i \in 1..Len(concept_candidates) :
        HasUsable(facts_root, concept_candidates[i], target_end)}
Yielding ==
    {i \in 1..Len(concept_candidates) :
        Yields(facts_root, concept_candidates[i], target_end)}

\* C18 as stated: the result is (null, null) only if no listed concept has a
\* fact with a usable val in its matched stage's candidate set; otherwise it
\* is a non-null value tagged with the earliest such concept.
C18_AsStated ==
    pc = "picked"
    => IF WithUsable = {} THEN picked = <<None, None>>
       ELSE /\ ~IsNone(picked[1])
            /\ picked[2] = Str(concept_candidates[Earliest(WithUsable)])

\* C18: the concept names are walked in list order and the walk stops at the
\* first concept whose chosen fact (the most recently filed of its matched
\* stage's candidate set) has a usable val: the result is that val tagged
\* with that concept, and it is (null, null) exactly when no listed concept's
\* chosen fact has a usable val.
C18_UnavailableOnlyWhenNothingUsable ==
    pc = "picked"
    => IF Yielding = {} THEN picked = <<None, None>>
       ELSE LET name == concept_candidates[Earliest(Yielding)]
            IN  picked = <<ValueOf(ExpectedFact(facts_root, name, target_end)),
                           Str(name)>>

\* C18 witness: the second name's matched stage holds a usable val, but its
\* chosen fact, filed the same day and first in the payload, has a val that
\* does not parse or none; the third name's value is returned.
C18_Witness ==
    /\ pc = "picked"
    /\ 2 \in WithUsable /\ 2 \notin Yielding
    /\ 1 \notin Yielding
    /\ picked = <<Float(33, 1), Str(concept_candidates[3])>>

\* C18 second case: the second name's chosen fact has a val that does not
\* parse, and no name yields a value.
C18_UnparseableSkipped ==
    /\ pc = "picked"
    /\ MatchedStage(facts_root, concept_candidates[2], target_end) # 0
    /\ ExpectedFact(facts_root, concept_candidates[2], target_end).val
          = Str(<<"a", "b">>)
    /\ Yielding = {}
    /\ picked = <<None, None>>

----------------------------------------------------------------------------
(* Claims about the locator (SpecLocate).                                  *)

\* The indices of the history entries with form type 10-K and a non-empty
\* period end.
FilteredIdx(rec) ==
    {i \in 1..Len(rec.form) :
        rec.form[i].s = FORM_10K /\ Len(rec.reportDate[i].s) > 0}

\* The filing of history entry i.
EntryAt(rec, i) ==
    [accession_number |-> rec.accessionNumber[i],
     primary_document |-> rec.primaryDocument[i],
     report_date |-> rec.reportDate[i],
     year |-> IntOf(Prefix(rec.reportDate[i].s, 4))]

\* The period-end year of history entry i.
EntryYear(rec, i) == IntOf(Prefix(rec.reportDate[i].s, 4))

\* The permutations of 1..n.
Perms(n) ==
    {p \in [1..n -> 1..n] : \A i, j \in 1..n : p[i] = p[j] => i = j}

\* The history with its (index-joined) arrays permuted by p.
Permute(rec, p) ==
    [form |-> [i \in 1..Len(rec.form) |-> rec.form[p[i]]],
     accessionNumber |-> [i \in 1..Len(rec.form) |-> rec.accessionNumber[p[i]]],
     primaryDocument |-> [i \in 1..Len(rec.form) |-> rec.primaryDocument[p[i]]],
     reportDate |-> [i \in 1..Len(rec.form) |-> rec.reportDate[p[i]]]]

\* The filtered entries whose period-end year is the target year.
ExactIdx(rec, y) == {i \in FilteredIdx(rec) : EntryYear(rec, i) = y.n}

\* The filtered entries whose period-end year is at most the target year.
PriorIdx(rec, y) == {i \in FilteredIdx(rec) : EntryYear(rec, i) <= y.n}

\* C6: when exactly one filtered entry has the target year, the locator
\* returns that entry for the history as fetched and for every permutation
\* of its index-joined arrays.
C6_SelectionDeterminism ==
    (pc = "located" /\ ~IsNone(year) /\ Cardinality(ExactIdx(recent, year)) = 1)
    => LET i == CHOOSE k \in ExactIdx(recent, year) : TRUE
       IN  /\ meta = EntryAt(recent, i)
           /\ \A p \in Perms(Len(recent.form)) :
                 get_10k_metadata(Permute(recent, p), year) = EntryAt(recent, i)

\* C6 witness: the single target-year entry is returned although another
\* candidate, later in time, stands before it in the arrays.
C6_Witness ==
    /\ pc = "located" /\ year = PyInt(2021)
    /\ Cardinality(ExactIdx(recent, year)) = 1
    /\ Len(recent.form) = 3
    /\ 1 \in FilteredIdx(recent) /\ EntryYear(recent, 1) = 2023
    /\ 2 \in FilteredIdx(recent) /\ EntryYear(recent, 2) = 2020
    /\ meta = EntryAt(recent, 3)

\* C7: with a target year that no candidate has and some candidate at or
\* before it, the locator returns a candidate of a year <= target whose
\* period end is the greatest among the candidates of a year <= target.
C7_NearestPrior ==
    (pc = "located" /\ ~IsNone(year) /\ ExactIdx(recent, year) = {}
        /\ PriorIdx(recent, year) # {})
    => /\ \E i \in PriorIdx(recent, year) : meta = EntryAt(recent, i)
       /\ meta.year <= year.n
       /\ \A j \in PriorIdx(recent, year) :
             DateLeq(recent.reportDate[j].s, meta.report_date.s)

\* C7 witness: target 2022 with candidates of 2020, 2021 and 2023 returns
\* the 2021 candidate.
C7_Witness ==
    /\ pc = "located" /\ year = PyInt(2022)
    /\ {EntryYear(recent, i) : i \in FilteredIdx(recent)} = {2020, 2021, 2023}
    /\ ~IsRaised(meta) /\ meta.year = 2021

\* C8: without a target year, or with every candidate's year after the
\* target year, the locator returns a candidate whose period end is the
\* greatest of the whole candidate set.
C8_MostRecent ==
    (pc = "located" /\ FilteredIdx(recent) # {}
        /\ (IsNone(year)
             \/ \A i \in FilteredIdx(recent) : EntryYear(recent, i) > year.n))
    => /\ \E i \in FilteredIdx(recent) : meta = EntryAt(recent, i)
       /\ \A j \in FilteredIdx(recent) :
             DateLeq(recent.reportDate[j].s, meta.report_date.s)

\* C8 witness: target 2019, every candidate later; the latest one, which is
\* not the first of the arrays, is returned.
C8_Witness ==
    /\ pc = "located" /\ year = PyInt(2019)
    /\ Cardinality(FilteredIdx(recent)) = 3
    /\ EntryYear(recent, 1) = 2021 /\ EntryYear(recent, 2) = 2023
    /\ meta = EntryAt(recent, 2)

\* C9: the locator raises the no-filings error exactly when no history
\* entry has form 10-K with a non-empty period end; otherwise it returns one
\* of those entries, its three fields taken from one index.
C9_NoFilingsFound ==
    pc = "located"
    => /\ (meta = Raised("RuntimeError: No 10-K filings found for this CIK."))
            <=> (FilteredIdx(recent) = {})
       /\ FilteredIdx(recent) # {}
            => \E i \in FilteredIdx(recent) :
                  /\ meta.accession_number = recent.accessionNumber[i]
                  /\ meta.primary_document = recent.primaryDocument[i]
                  /\ meta.report_date = recent.reportDate[i]

\* C9 witness: a history of 10-K entries without a period end and of 10-K/A
\* entries with one raises the no-filings error, with a target year given.
C9_Witness ==
    /\ pc = "located" /\ ~IsNone(year)
    /\ Len(recent.form) >= 2
    /\ \E i \in 1..Len(recent.form) :
          recent.form[i].s = FORM_10K /\ recent.reportDate[i].s = <<>>
    /\ \E i \in 1..Len(recent.form) :
          recent.form[i].s = FORM_10KA /\ Len(recent.reportDate[i].s) > 0
    /\ IsRaised(meta)

----------------------------------------------------------------------------
(* Claims about the run (Spec).                                            *)

\* The run has stored gross profit; it has stored EBITDA.
GrossProfitStored ==
    pc \in {"operating_income", "net_income", "depr_amort", "ebitda",
            "compute_margins", "report", "done"}
EbitdaStored == pc \in {"compute_margins", "report", "done"}

\* What the resolver returns for a concept list in this run.
Resolved(concepts) == pick_fact_value(facts_root, concepts, target_end)

\* Both figures a and b of the results are there.
BothThere(a, b) == ~IsNone(results[a]) /\ ~IsNone(results[b])

\* C5: gross profit (and EBITDA) as stored is the resolver's value with the
\* concept name used whenever the resolver returned one; it is the computed
\* value, labelled 'Derived', only when the resolver returned null and both
\* inputs are non-null; otherwise it is null.
C5_DerivedNonClobber ==
    /\ pc = "operating_income" => picked = Resolved(GROSS_PROFIT_CONCEPTS)
    /\ pc = "compute_margins" => picked = Resolved(EBITDA_CONCEPTS)
    /\ GrossProfitStored
         => LET r == Resolved(GROSS_PROFIT_CONCEPTS)
            IN  CASE ~IsNone(r[1]) ->
                       /\ results["gross_profit"] = r[1]
                       /\ results["gross_profit_concept"] = r[2]
                       /\ r[2].s \in {GROSS_PROFIT_CONCEPTS[i] :
                                        i \in 1..Len(GROSS_PROFIT_CONCEPTS)}
                  [] IsNone(r[1]) /\ BothThere("net_sales", "cost_of_revenue") ->
                       /\ results["gross_profit"].den = 1
                       /\ results["gross_profit"].num =
                             results["net_sales"].num - results["cost_of_revenue"].num
                       /\ results["gross_profit_concept"]
                             = Str("Derived: net_sales - cost_of_revenue")
                  [] OTHER ->
                       /\ results["gross_profit"] = None
                       /\ results["gross_profit_concept"] = None
    /\ EbitdaStored
         => LET r == Resolved(EBITDA_CONCEPTS)
            IN  CASE ~IsNone(r[1]) ->
                       /\ results["ebitda"] = r[1]
                       /\ results["ebitda_concept"] = r[2]
                       /\ r[2].s \in {EBITDA_CONCEPTS[i] :
                                        i \in 1..Len(EBITDA_CONCEPTS)}
                  [] IsNone(r[1]) /\ BothThere("operating_income",
                                               "depreciation_and_amortization") ->
                       /\ results["ebitda"].den = 1
                       /\ results["ebitda"].num =
                             results["operating_income"].num
                               + results["depreciation_and_amortization"].num
                       /\ results["ebitda_concept"]
                             = Str("Derived: operating_income + depreciation_and_amortization")
                  [] OTHER ->
                       /\ results["ebitda"] = None
                       /\ results["ebitda_concept"] = None

\* C5 witness: gross profit is tagged (450) while net sales (1000) and cost
\* of revenue (600) are there too, and the tagged value is what the finished
\* run holds; EBITDA is not tagged and is derived (200 + 50).
C5_Witness ==
    /\ pc = "done"
    /\ results["net_sales"] = Float(1000, 1)
    /\ results["cost_of_revenue"] = Float(600, 1)
    /\ results["gross_profit"] = Float(450, 1)
    /\ results["gross_profit_concept"] = Str("GrossProfit")
    /\ IsNone(Resolved(EBITDA_CONCEPTS)[1])
    /\ results["ebitda"] = Float(250, 1)
    /\ results["ebitda_concept"]
          = Str("Derived: operating_income + depreciation_and_amortization")

\* The seven figures of a run in the order main resolves them, each with
\* its concept list.
FigureKeys ==
    <<"net_sales", "cost_of_revenue", "gross_profit", "operating_income",
      "net_income", "depreciation_and_amortization", "ebitda">>
FigureConcepts ==
    <<NET_SALES_CONCEPTS, COST_OF_REVENUE_CONCEPTS, GROSS_PROFIT_CONCEPTS,
      OPERATING_INCOME_CONCEPTS, NET_INCOME_CONCEPTS, DEPR_AMORT_CONCEPTS,
      EBITDA_CONCEPTS>>

\* The two figures main derives, each with the two figures it is derived from.
DerivedFrom ==
    [gross_profit |-> <<"net_sales", "cost_of_revenue">>,
     ebitda |-> <<"operating_income", "depreciation_and_amortization">>]

\* The facts payload has been fetched: main has built its results.
FactsFetched == results # NoResults

\* Figure number n is unresolved: the resolver has no value for it, and it
\* cannot be derived.
Unresolved(n) ==
    /\ IsNone(Resolved(FigureConcepts[n])[1])
    /\ FigureKeys[n] \in DOMAIN DerivedFrom
         => ~BothThere(DerivedFrom[FigureKeys[n]][1],
                       DerivedFrom[FigureKeys[n]][2])

\* Nulls flow through: an unresolved figure is stored as null, a margin with
\* a null numerator or denominator is null, a null margin is printed "N/A".
NullsFlow ==
    /\ pc \in {"compute_margins", "report", "done"}
         => \A n \in 1..Len(FigureKeys) :
               Unresolved(n) => results[FigureKeys[n]] = None
    /\ pc \in {"report", "done"}
         => \A m \in DOMAIN MarginNumerator :
               (NullFigure(results, MarginNumerator[m])
                  \/ NullFigure(results, "net_sales"))
               => margins[m] = None
    /\ pc = "done"
         => \A m \in DOMAIN MarginNumerator :
               margins[m] = None => report[m] = Str("N/A")

\* C13: once the facts payload is fetched the run never aborts and reaches
\* the end of the report, whatever the fact store holds; unresolved figures
\* are null, margins with a null figure are null and are reported as "N/A".
C13_MissingFiguresNeverAbort ==
    /\ [](FactsFetched => pc \notin {"aborted", "exited"})
    /\ (FactsFetched ~> pc = "done")
    /\ []NullsFlow

\* C13 witness: a run on a payload without the us-gaap namespace has
\* finished; every figure is null and every margin is reported as "N/A".
C13_Witness ==
    /\ pc = "done"
    /\ facts_root = [dei |-> NoConcepts]
    /\ \A n \in 1..Len(FigureKeys) : results[FigureKeys[n]] = None
    /\ \A m \in DOMAIN MarginNumerator : report[m] = Str("N/A")

\* The run has ended: the report is printed, or an error or the usage
\* message ended it.
Ended == pc \in {"done", "aborted", "exited"}

\* The run found no income-statement data: it holds no figure at all.
NoDataFound ==
    ~FactsFetched \/ \A n \in 1..Len(FigureKeys) : results[FigureKeys[n]] = None

\* C14: a run that has ended has exit code 1 if it found no usable
\* income-statement data and exit code 0 otherwise; a run without any
\* income-statement data does not exit 0.
C14_ExitCode ==
    Ended => (exit_code = PyInt(1) <=> NoDataFound)
             /\ (exit_code = PyInt(0) <=> ~NoDataFound)

\* The error of a ticker that is not in the mapping.
NotFound == Raised("ValueError: Ticker not found in SEC ticker list.")

\* The mapping was fetched, and it has no entry for the ticker in any case
\* of its letters.
TickerAbsent ==
    /\ Len(requests) >= 1
    /\ ~(Len(requests) = 1 /\ error = Raised("HTTPError"))
    /\ Upper(ticker.s) \notin DOMAIN mapping

\* C15: when the ticker is absent from the fetched mapping the run is
\* aborted with the not-found error and its only request is the one for the
\* mapping, never repeated and never followed by another; and the run ends
\* with that error in no other case.
C15_NotFoundFatal ==
    /\ TickerAbsent
         => /\ pc = "aborted"
            /\ error = NotFound
            /\ exit_code = PyInt(1)
            /\ requests = <<"company_tickers">>
    /\ error = NotFound => TickerAbsent

\* C15 witness: the ticker ab is looked up in a mapping that holds B only;
\* the run has aborted after its one request.
C15_Witness ==
    /\ pc = "aborted"
    /\ ticker = Str(<<"a", "b">>)
    /\ DOMAIN mapping = {<<"B">>}
    /\ error = NotFound
    /\ requests = <<"company_tickers">>

\* The steps of main in the order of its text.
Stages ==
    <<"start", "get_cik", "get_meta", "fetch_facts", "net_sales",
      "cost_of_revenue", "gross_profit", "operating_income", "net_income",
      "depr_amort", "ebitda", "compute_margins", "report", "done">>
StageOf(p) == CHOOSE k \in 1..Len(Stages) : Stages[k] = p
ResolutionStages == {Stages[k] : k \in 5..11}

\* The key under which main stores the concept name of each figure.
ConceptKeys ==
    <<"net_sales_concept", "cost_of_revenue_concept", "gross_profit_concept",
      "operating_income_concept", "net_income_concept", "depr_amort_concept",
      "ebitda_concept">>

\* How often x occurs in seq.
Count(seq, x) == Cardinality({k \in 1..Len(seq) : seq[k] = x})

\* One step of main: it ends the run or moves to the next step of the order;
\* only the three fetches issue a request; a resolution writes the two keys
\* of its own figure and nothing else; margins are computed at their step,
\* and the figures do not change from then on.
SequentialStep ==
    /\ pc' \in {"aborted", "exited"} \/ StageOf(pc') = StageOf(pc) + 1
    /\ requests' # requests
         => /\ pc \in {"get_cik", "get_meta", "fetch_facts"}
            /\ Len(requests') = Len(requests) + 1
    /\ pc \in ResolutionStages
         => /\ UNCHANGED <<requests, facts_root, target_end, margins, report>>
            /\ \A k \in DOMAIN results :
                  k \notin {FigureKeys[StageOf(pc) - 4],
                            ConceptKeys[StageOf(pc) - 4]}
                  => results'[k] = results[k]
    /\ margins' # margins => pc = "compute_margins"
    /\ pc \in {"compute_margins", "report"} => UNCHANGED <<results, requests>>
    /\ report' # report => pc = "report"

\* Where main is: the facts are fetched once, after the filing is located and
\* before the first resolution; the margins reported are those of the final
\* figures.
SequentialState ==
    /\ Count(requests, "companyfacts") <= 1
    /\ pc = "fetch_facts"
         => /\ requests = <<"company_tickers", "submissions">>
            /\ ~IsNone(meta) /\ ~IsRaised(meta)
    /\ pc \in ResolutionStages \cup {"compute_margins", "report", "done"}
         => /\ requests = <<"company_tickers", "submissions", "companyfacts">>
            /\ target_end = meta.report_date
    /\ pc \in {"report", "done"} => margins = compute_margins(results)

\* C16: every run goes through locate filing, fetch facts, the seven
\* resolutions in their order, compute margins and report, one step after
\* the other; the facts are fetched exactly once and before the first
\* resolution, no resolution issues a request, and margins are computed only
\* after the seven figures are final.
C16_SequentialPipeline == [][SequentialStep]_vars /\ []SequentialState

\* C16 witness: a run has finished with its three requests and a margin.
C16_Witness ==
    /\ pc = "done"
    /\ requests = <<"company_tickers", "submissions", "companyfacts">>
    /\ results["net_sales"] = Float(1000, 1)
    /\ margins["net_sales_margin"] = Float(1, 10)

\* The filing has been located; a resolver call has returned.
Located == pc \in {Stages[k] : k \in 4..Len(Stages)}
Returned == pc \in {Stages[k] : k \in 6..Len(Stages)}

\* The fact the value in `picked` is taken from.
PickedFact == ExpectedFact(facts_root, picked[2].s, target_end)

\* C17 as stated: every resolver call receives the located filing's
\* report_date as its target period end, and every value returned is taken
\* from a fact whose period end is that report_date.
C17_AsStated ==
    /\ Located => target_end = meta.report_date
    /\ (Returned /\ ~IsNone(picked[1])) => EndIs(PickedFact, meta.report_date)

\* C17: every resolver call receives the located filing's report_date as its
\* target period end, and every value returned is the val of the fact chosen
\* in the first stage, computed against that report_date, that some fact of
\* the returned concept passes: the fact's period end is the report_date in
\* stages A and B, lies in the report_date's calendar year in stage E, and
\* is unconstrained (10-K family only) in stages C and D.
C17_TargetPeriodEnd ==
    /\ Located => target_end = meta.report_date
    /\ Returned
         => picked = pick_fact_value(facts_root, concept_candidates,
                                     meta.report_date)
    /\ (Returned /\ ~IsNone(picked[1]))
         => LET name == picked[2].s
                st == MatchedStage(facts_root, name, meta.report_date)
                f == ExpectedFact(facts_root, name, meta.report_date)
            IN  /\ st # 0
                /\ PassesStage(f, meta.report_date, st)
                /\ picked[1] = ValueOf(f)
                /\ st \in {1, 2} => EndIs(f, meta.report_date)
                /\ st \in {3, 4} => Family10K(f)
                /\ st = 5 => EndYearIs(f, meta.report_date)

\* C17 witness: the 2021 filing was located and the run has stored the
\* revenue of a 10-K fact that ends in 2023, found with the period end
\* unconstrained.
C17_Witness ==
    /\ pc = "done"
    /\ target_end = Str(Date(2021, 12, 31))
    /\ meta.report_date = Str(Date(2021, 12, 31))
    /\ results["net_sales"] = Float(1000, 1)
    /\ MatchedStage(facts_root, "Revenues", target_end) = 3

\* A step of the run after the facts are fetched leaves the fact store as
\* it is.
StoreKept == pc \in ResolutionStages => facts_root' = facts_root

\* Resolving list b first does not change what list a resolves to.
OrderFree(a, b) ==
    pick_fact_value(StoreAfter(facts_root, b, target_end), a, target_end)
        = pick_fact_value(facts_root, a, target_end)

\* The result r of a call with the list `concepts` is (null, null), or a
\* non-null value paired with a name of the list, the value being the val
\* of one of that concept's us-gaap facts.
Paired(r, concepts) ==
    \/ r = <<None, None>>
    \/ /\ ~IsNone(r[1]) /\ IsStr(r[2])
       /\ \E i \in 1..Len(concepts) : r[2] = Str(concepts[i])
       /\ \E p \in Places(facts_root, r[2].s) :
             /\ UsableVal(FactAt(facts_root, r[2].s, p))
             /\ r[1] = ValueOf(FactAt(facts_root, r[2].s, p))

----------------------------------------------------------------------------
(* Claims about the recovery of the parsed financials (SpecDeepseek).      *)

\* The position of the brace that closes the one opened before k, depth
\* braces being open at k (0 when the text ends first).
RECURSIVE ClosingBrace(_, _, _)
ClosingBrace(s, k, depth) ==
    IF k > Len(s) THEN 0
    ELSE IF s[k] = "{" THEN ClosingBrace(s, k + 1, depth + 1)
    ELSE IF s[k] = "}"
         THEN IF depth = 1 THEN k ELSE ClosingBrace(s, k + 1, depth - 1)
    ELSE ClosingBrace(s, k + 1, depth)

\* The first balanced {...} block of a text (the empty text when it has none).
FirstBalancedBlock(s) ==
    LET opens == {k \in 1..Len(s) : s[k] = "{"}
    IN  IF opens = {} THEN <<>>
        ELSE LET a == CHOOSE x \in opens : \A y \in opens : x <= y
                 b == ClosingBrace(s, a + 1, 1)
             IN  IF b = 0 THEN <<>> ELSE SubSeq(s, a, b)

\* The text holds a JSON object with other text before or after it.
WrappedObject(s) ==
    \E a \in 1..Len(s) : \E b \in a..Len(s) :
        /\ a > 1 \/ b < Len(s)
        /\ s[a] = "{" /\ s[b] = "}"
        /\ ~IsRaised(json_loads(SubSeq(s, a, b)))

\* The service answered with a message whose content is not blank.
Answered ==
    /\ ~IsNone(api_key) /\ resp.status = 200
    /\ "error" \notin DOMAIN resp.data
    /\ ~IsRaised(ContentOf(resp.data))
    /\ IsStr(ContentOf(resp.data))
    /\ ~Blank(ContentOf(resp.data).s)

\* C12: given a content that holds a JSON object wrapped in other text,
\* call_deepseek_for_income_statement returns the object of the content's
\* first balanced {...} block; with the key set, it fails only when the
\* service errors, the content is empty or that block is no JSON object.
C12_JsonRecovery ==
    pc = "called" /\ ~IsNone(api_key)
    => /\ (Answered /\ WrappedObject(ContentOf(resp.data).s))
          => fin = json_loads(FirstBalancedBlock(ContentOf(resp.data).s))
       /\ (Answered /\ IsRaised(fin))
          => IsRaised(json_loads(FirstBalancedBlock(ContentOf(resp.data).s)))


----------------------------------------------------------------------------
(* Claims about the download utilities (SpecDownload).                     *)

\* Entry k of the log is a document request.
IsRequest(k) == events[k][1] = "requests.get"

\* C19: within one call, a delay step occurs between every two successive
\* document download requests, also after a request that returned a
\* non-200 status: no two requests are next to each other in the log.
C19_DownloadPacing ==
    \A k \in 1..(Len(events) - 1) : ~(IsRequest(k) /\ IsRequest(k + 1))

====
